---------------------------- MODULE Spec2Model ----------------------------
(***************************************************************************)
(* A model of the GreyRock listings scraper, scraper/scrape.mjs.  The file *)
(* holds two versions of the script: v1 (one index page, listing cards)    *)
(* and v2 (index page, then one detail page per listing).  Both are        *)
(* modelled; a definition that exists in both carries the suffix V1 or V2. *)
(*                                                                         *)
(* JavaScript strings are TLA+ strings; TLC's Len, \o and SubSeq work on   *)
(* them, so the text functions are computed character by character.        *)
(***************************************************************************)
EXTENDS Integers, Sequences, FiniteSets, TLC

\* the inventory of the source site; listings.json; the run in progress or,
\* between two runs, what the last run ended with; for the study of
\* simpleHash, a second record set and the fingerprints of the two
VARIABLES site, file, pc, variant, html, uuids, i, listings, exitCode, log,
          edited, prints

(***************************************************************************)
(* Characters and strings                                                  *)
(***************************************************************************)

\* the i-th character of s (1-based), as a one-character string
Chr(s, ix) == SubSeq(s, ix, ix)

CharsOf(s) == {Chr(s, ix) : ix \in 1..Len(s)}

\* code units 32..95 and 97..126, in order (the grave accent, 96, cannot be
\* written in a TLA+ string and occurs in no text of the model)
AsciiLow == " !\"#$%&'()*+,-./0123456789:;<=>?@ABCDEFGHIJKLMNOPQRSTUVWXYZ[\\]^_"
AsciiHigh == "abcdefghijklmnopqrstuvwxyz{|}~"

UpperAZ == "ABCDEFGHIJKLMNOPQRSTUVWXYZ"
LowerAZ == "abcdefghijklmnopqrstuvwxyz"
Digits09 == "0123456789"

AllChars == CharsOf(AsciiLow) \cup CharsOf(AsciiHigh) \cup {"\n", "\t"}

\* String.prototype.charCodeAt, as a table over the characters of the model
\* (f @@ <<>> is f, written out entry by entry)
charCodeAt ==
  [c \in AllChars |->
     IF c = "\n" THEN 10
     ELSE IF c = "\t" THEN 9
     ELSE IF c \in CharsOf(AsciiLow)
          THEN 31 + (CHOOSE ix \in 1..Len(AsciiLow) : Chr(AsciiLow, ix) = c)
          ELSE 96 + (CHOOSE ix \in 1..Len(AsciiHigh) : Chr(AsciiHigh, ix) = c)] @@ <<>>

\* the lower-case form of one character
toLowerChar ==
  [c \in AllChars |->
     IF c \in CharsOf(UpperAZ)
     THEN Chr(LowerAZ, CHOOSE ix \in 1..Len(UpperAZ) : Chr(UpperAZ, ix) = c)
     ELSE c] @@ <<>>

toUpperChar ==
  [c \in AllChars |->
     IF c \in CharsOf(LowerAZ)
     THEN Chr(UpperAZ, CHOOSE ix \in 1..Len(LowerAZ) : Chr(LowerAZ, ix) = c)
     ELSE c] @@ <<>>

\* a letter in its other case, any other character itself
otherCase ==
  [c \in AllChars |->
     IF c \in CharsOf(LowerAZ)
     THEN Chr(UpperAZ, CHOOSE ix \in 1..Len(LowerAZ) : Chr(LowerAZ, ix) = c)
     ELSE IF c \in CharsOf(UpperAZ)
     THEN Chr(LowerAZ, CHOOSE ix \in 1..Len(UpperAZ) : Chr(UpperAZ, ix) = c)
     ELSE c] @@ <<>>

\* the concatenation of ss[a], ..., ss[b], by halves
RECURSIVE ConcatRange(_, _, _, _)
ConcatRange(ss, a, b, empty) ==
  IF a > b THEN empty
  ELSE IF a = b THEN ss[a]
  ELSE LET mid == (a + b) \div 2
       IN ConcatRange(ss, a, mid, empty) \o ConcatRange(ss, mid + 1, b, empty)

\* the concatenation of a sequence of strings, of a sequence of sequences
Join(ss) == ConcatRange(ss, 1, Len(ss), "")
Flatten(ss) == ConcatRange(ss, 1, Len(ss), <<>>)

\* String.prototype.toLowerCase
toLowerCase(s) == Join([ix \in 1..Len(s) |-> toLowerChar[Chr(s, ix)]])

\* the character classes of the regular expressions
ClsDigit == CharsOf(Digits09)
ClsSpace == {" ", "\n", "\t"}
ClsAlpha == CharsOf(UpperAZ) \cup CharsOf(LowerAZ)
ClsUpper == CharsOf(UpperAZ)
ClsLower == CharsOf(LowerAZ)
ClsWord == ClsAlpha \cup ClsDigit \cup {"_"}
ClsHexDash == CharsOf("abcdef") \cup ClsDigit \cup {"-"}
ClsDot == AllChars \ {"\n"}

\* String.prototype.includes
includes(s, sub) ==
  \E ix \in 1..(Len(s) - Len(sub) + 1) : SubSeq(s, ix, ix + Len(sub) - 1) = sub

\* String.prototype.trim
trimStart(s) ==
  LET ink == {ix \in 1..Len(s) : Chr(s, ix) \notin ClsSpace}
  IN IF ink = {} THEN ""
     ELSE SubSeq(s, CHOOSE ix \in ink : \A j \in ink : ix <= j, Len(s))

trimEnd(s) ==
  LET ink == {ix \in 1..Len(s) : Chr(s, ix) \notin ClsSpace}
  IN IF ink = {} THEN ""
     ELSE SubSeq(s, 1, CHOOSE ix \in ink : \A j \in ink : ix >= j)

trim(s) == trimEnd(trimStart(s))

\* String.prototype.slice(0, n)
slice0(s, n) == SubSeq(s, 1, IF n < Len(s) THEN n ELSE Len(s))

(***************************************************************************)
(* Regular expressions.  A pattern is a sequence of items, matched by      *)
(* backtracking as JavaScript does: the results of an item are listed in   *)
(* the order in which the engine tries them (a greedy repetition from its  *)
(* longest run down, an alternation from its first branch on), and the     *)
(* match is the first result of the leftmost start that has one.           *)
(***************************************************************************)

Lit(s) == [k |-> "lit", s |-> s]
\* a greedy repetition of a class: max < 0 is unbounded
Rep(cs, min, max) == [k |-> "set", cs |-> cs, min |-> min, max |-> max]
One(cs) == Rep(cs, 1, 1)
Plus(cs) == Rep(cs, 1, -1)
Star(cs) == Rep(cs, 0, -1)
\* a lazy repetition (+?): the shortest run first
PlusLazy(cs) == [k |-> "lazy", cs |-> cs, min |-> 1, max |-> -1]
Alt(alts) == [k |-> "alt", alts |-> alts]
Opt(re) == Alt(<<re, <<>>>>)
Cap(n, re) == [k |-> "cap", n |-> n, re |-> re]
Bol == [k |-> "bol"]
Eol == [k |-> "eol"]
\* \b
WordBoundary == [k |-> "wb"]

NoCaps == <<<<0, 0>>, <<0, 0>>>>

\* a equals b, under the i flag up to the case of a letter
SameChar(a, b, ci) == a = b \/ (ci /\ otherCase[a] = b)

LitAt(s, p, lit, ci) ==
  /\ p + Len(lit) - 1 <= Len(s)
  /\ \A j \in 1..Len(lit) : SameChar(Chr(s, p + j - 1), Chr(lit, j), ci)

InCls(c, cs, ci) == c \in cs \/ (ci /\ otherCase[c] \in cs)

\* the length of the run of characters of cs in s from position p, at most max
\* (max < 0: no limit)
RunUpTo(s, p, cs, ci, last) ==
  IF p > Len(s) THEN 0
  ELSE (CHOOSE ix \in p..(last + 1) :
          /\ ix = last + 1 \/ ~InCls(Chr(s, ix), cs, ci)
          /\ \A j \in p..(ix - 1) : InCls(Chr(s, j), cs, ci)) - p

RunLenCi(s, p, cs, max, ci) ==
  RunUpTo(s, p, cs, ci, IF max < 0 \/ p + max - 1 > Len(s) THEN Len(s) ELSE p + max - 1)

RECURSIVE MatchSeq(_, _, _, _)
RECURSIVE MatchItem(_, _, _, _)
RECURSIVE MatchAlts(_, _, _, _)

\* the results of pattern re continued from each state of sts, in order
MatchSeq(re, s, ci, sts) ==
  IF re = <<>> \/ sts = <<>> THEN sts
  ELSE MatchSeq(Tail(re), s, ci,
                Flatten([j \in 1..Len(sts) |-> MatchItem(Head(re), s, ci, sts[j])]))

MatchAlts(alts, s, ci, st) ==
  IF alts = <<>> THEN <<>>
  ELSE MatchSeq(Head(alts), s, ci, <<st>>) \o MatchAlts(Tail(alts), s, ci, st)

\* the results of one item from state st = [p: position, c: captures]
\* the results of a repetition whose longest run has n characters: a greedy
\* one from the longest down, a lazy one from the shortest up
Runs(item, st, n) ==
  IF n < item.min THEN <<>>
  ELSE [j \in 1..(n - item.min + 1) |->
          [st EXCEPT !.p = IF item.k = "lazy" THEN st.p + item.min + j - 1
                           ELSE st.p + n - j + 1]]

\* the results rs of a group that started at p, with capture n set
Captured(n, p, rs) == [j \in 1..Len(rs) |-> [rs[j] EXCEPT !.c[n] = <<p, rs[j].p>>]]

\* p is in a word of s
InWord(s, p) == p >= 1 /\ p <= Len(s) /\ Chr(s, p) \in ClsWord

MatchItem(item, s, ci, st) ==
  CASE item.k = "lit" ->
         IF LitAt(s, st.p, item.s, ci)
         THEN <<[st EXCEPT !.p = st.p + Len(item.s)]>> ELSE <<>>
    [] item.k \in {"set", "lazy"} ->
         Runs(item, st, RunLenCi(s, st.p, item.cs, item.max, ci))
    [] item.k = "alt" -> MatchAlts(item.alts, s, ci, st)
    [] item.k = "cap" -> Captured(item.n, st.p, MatchSeq(item.re, s, ci, <<st>>))
    [] item.k = "bol" -> IF st.p = 1 THEN <<st>> ELSE <<>>
    [] item.k = "eol" -> IF st.p = Len(s) + 1 THEN <<st>> ELSE <<>>
    [] item.k = "wb" ->
         IF InWord(s, st.p - 1) # InWord(s, st.p) THEN <<st>> ELSE <<>>

\* the match that starts at p
FirstResult(p, rs) ==
  IF rs # <<>>
  THEN [found |-> TRUE, start |-> p, end |-> rs[1].p, c |-> rs[1].c]
  ELSE [found |-> FALSE, start |-> 0, end |-> 0, c |-> NoCaps]

ExecAt(re, s, ci, p) ==
  FirstResult(p, MatchSeq(re, s, ci, <<[p |-> p, c |-> NoCaps]>>))

\* the match of the least start in a..b: the starts of the lower half first
RECURSIVE ExecFrom(_, _, _, _, _)
ExecFrom(re, s, ci, a, b) ==
  IF a >= b THEN ExecAt(re, s, ci, a)
  ELSE LET lower == ExecFrom(re, s, ci, a, (a + b) \div 2)
       IN IF lower.found THEN lower ELSE ExecFrom(re, s, ci, ((a + b) \div 2) + 1, b)

\* String.prototype.match without the g flag: the leftmost match
match(re, s, ci) == ExecFrom(re, s, ci, 1, Len(s) + 1)

\* RegExp.prototype.test
test(re, s, ci) == match(re, s, ci).found

\* m[0] and m[n] of a match m on s
Whole(s, m) == SubSeq(s, m.start, m.end - 1)
Group(s, m, n) == SubSeq(s, m.c[n][1], m.c[n][2] - 1)

(***************************************************************************)
(* Optional values and numbers.  null is None and a value v is Some(v).    *)
(* A JavaScript number is a decimal m / 10^e (every number the scraper     *)
(* reads or computes in the model is one) or NaN.                          *)
(***************************************************************************)

None == <<>>
Some(v) == <<v>>

\* a || b for two optional values
OrElse(a, b) == IF a # None THEN a ELSE b

\* the value of an optional value, d when there is none
Default(o, d) == IF o = None THEN d ELSE o[1]

\* a || b for two matches
OrMatch(m1, m2) == IF m1.found THEN m1 ELSE m2

\* m ? m[0] : null and m ? m[n] : null for a match m on s
WholeOf(s, m) == IF m.found THEN Some(Whole(s, m)) ELSE None
GroupOf(s, m, n) == IF m.found THEN Some(Group(s, m, n)) ELSE None

\* o ? o.trim() : null
trimOpt(o) == IF o = None THEN None ELSE Some(trim(o[1]))

NaN == [m |-> 0, e |-> 0, nan |-> TRUE]

RECURSIVE Norm(_, _)
Norm(m, e) ==
  IF e > 0 /\ m % 10 = 0 THEN Norm(m \div 10, e - 1)
  ELSE [m |-> m, e |-> e, nan |-> FALSE]

IntNum(n) == [m |-> n, e |-> 0, nan |-> FALSE]

RECURSIVE Pow10(_)
Pow10(e) == IF e = 0 THEN 1 ELSE 10 * Pow10(e - 1)

\* a > n for a number a and an integer n; NaN compares false
GreaterThan(a, n) == ~a.nan /\ a.m > n * Pow10(a.e)

\* a + b
AddNum(a, b) ==
  IF a.nan \/ b.nan THEN NaN
  ELSE LET e == IF a.e > b.e THEN a.e ELSE b.e
       IN Norm(a.m * Pow10(e - a.e) + b.m * Pow10(e - b.e), e)

\* the truthiness of a number: 0 and NaN are falsy
Truthy(a) == ~a.nan /\ a.m # 0

RECURSIVE DecStr(_)
DecStr(n) ==
  IF n < 10 THEN Chr(Digits09, n + 1)
  ELSE DecStr(n \div 10) \o Chr(Digits09, (n % 10) + 1)

RECURSIVE PadLeft(_, _)
PadLeft(s, n) == IF Len(s) >= n THEN s ELSE PadLeft("0" \o s, n)

\* Number.prototype.toString of a decimal: no exponent, no trailing zeros
NumStr(a) ==
  IF a.nan THEN "NaN"
  ELSE LET abs == IF a.m < 0 THEN -a.m ELSE a.m
           p == Pow10(a.e)
           body == IF a.e = 0 THEN DecStr(abs)
                   ELSE DecStr(abs \div p) \o "." \o PadLeft(DecStr(abs % p), a.e)
       IN (IF a.m < 0 THEN "-" ELSE "") \o body

(***************************************************************************)
(* simpleHash.  A 32-bit integer is the pair <<high 16 bits, low 16 bits>> *)
(* of its two's complement form, so that no step leaves TLC's integers.    *)
(***************************************************************************)

Half == 65536

\* h << 5
Shl5(h) ==
  LET lo == h[2] * 32
  IN <<(h[1] * 32 + lo \div Half) % Half, lo % Half>>

\* a - b, wrapped to 32 bits
Sub32(a, b) ==
  LET lo == a[2] - b[2]
  IN <<(a[1] - b[1] + lo \div Half) % Half, lo % Half>>

\* a + c for a code unit c, wrapped to 32 bits
Add32(a, c) ==
  LET lo == a[2] + c
  IN <<(a[1] + lo \div Half) % Half, lo % Half>>

\* a loop that leaves out the subtraction: hash = (hash << 5) + char
HashStepShiftOnly(hash, char) == Add32(Shl5(hash), char)

\* one turn of the loop: hash = ((hash << 5) - hash) + char; hash |= 0
HashStep(hash, char) == Add32(Sub32(Shl5(hash), hash), char)

\* the loop over str[a..b], split in halves to keep the evaluation shallow
RECURSIVE HashLoop(_, _, _, _)
HashLoop(hash, str, a, b) ==
  IF a > b THEN hash
  ELSE IF a = b THEN HashStep(hash, charCodeAt[Chr(str, a)])
  ELSE LET mid == (a + b) \div 2
           left == HashLoop(hash, str, a, mid)
       IN IF left[1] >= 0 THEN HashLoop(left, str, mid + 1, b) ELSE left

Digits36 == "0123456789abcdefghijklmnopqrstuvwxyz"

\* the base-36 digits of an unsigned 32-bit value u # 0
RECURSIVE Base36(_)
Base36(u) ==
  IF u = <<0, 0>> THEN ""
  ELSE LET qh == u[1] \div 36
           rest == (u[1] % 36) * Half + u[2]
       IN Base36(<<qh, rest \div 36>>) \o Chr(Digits36, (rest % 36) + 1)

\* Number.prototype.toString(36) of a signed 32-bit integer
toString36(h) ==
  IF h = <<0, 0>> THEN "0"
  ELSE IF h[1] >= 32768 THEN "-" \o Base36(Sub32(<<0, 0>>, h))
  ELSE Base36(h)

simpleHash(str) == toString36(HashLoop(<<0, 0>>, str, 1, Len(str)))

(***************************************************************************)
(* Number parsing and the arithmetic of the record extractors              *)
(***************************************************************************)

\* s without the characters of cs: s.replace(/[cs]/g, '')
removeChars(s, cs) ==
  Join([ix \in 1..Len(s) |-> IF Chr(s, ix) \in cs THEN "" ELSE Chr(s, ix)])

\* the value of a string of decimal digits
RECURSIVE DigitsValue(_)
DigitsValue(s) ==
  IF s = "" THEN 0
  ELSE DigitsValue(SubSeq(s, 1, Len(s) - 1)) * 10
       + ((CHOOSE ix \in 1..10 : Chr(Digits09, ix) = Chr(s, Len(s))) - 1)

\* parseFloat of a string that starts with neither sign nor space: the
\* longest prefix digits[.digits], NaN when it holds no digit
DigitRun(s, p) == RunLenCi(s, p, ClsDigit, -1, FALSE)

\* the number of ni integer digits and nf fraction digits at the start of s
FloatOf(s, ni, nf) ==
  IF ni = 0 /\ nf = 0 THEN NaN
  ELSE Norm(DigitsValue(SubSeq(s, 1, ni)) * Pow10(nf)
            + DigitsValue(SubSeq(s, ni + 2, ni + 1 + nf)), nf)

FloatAfter(s, ni) ==
  FloatOf(s, ni, IF ni < Len(s) /\ Chr(s, ni + 1) = "." THEN DigitRun(s, ni + 2) ELSE 0)

parseFloat(s) == FloatAfter(s, DigitRun(s, 1))

IntOf(s, ni) == IF ni = 0 THEN NaN ELSE IntNum(DigitsValue(SubSeq(s, 1, ni)))

\* parseInt of a string that starts with neither sign nor space
parseInt(s) == IntOf(s, DigitRun(s, 1))

\* o ? parseFloat(o.replace(/[cs]/g, '')) : null, and the same with parseInt
parseFloatOpt(o, cs) == IF o = None THEN None ELSE Some(parseFloat(removeChars(o[1], cs)))
parseIntOpt(o, cs) == IF o = None THEN None ELSE Some(parseInt(removeChars(o[1], cs)))

\* parseFloat((rent / sqft * 12).toFixed(2)) for a decimal rent and an integer
\* sqft # 0: the quotient rounded to the nearest hundredth, a tie upward
annualPerSF(rent, sqft) ==
  LET d == Pow10(rent.e) * sqft.m
      whole == rent.m \div d
      rest == rent.m % d
      twice == (2 * rest * 1200 + d) \div (2 * d)
  IN Norm(whole * 1200 + twice, 2)

\* s.replace(/\s+/g, ' ')
collapseSpace(s) ==
  Join([ix \in 1..Len(s) |->
          IF Chr(s, ix) \notin ClsSpace THEN Chr(s, ix)
          ELSE IF ix > 1 /\ Chr(s, ix - 1) \in ClsSpace THEN "" ELSE " "])

(***************************************************************************)
(* The document.  An element is the record of what the scraper reads from  *)
(* it: tag, class attribute, children.length, the number of links below    *)
(* it, textContent, the texts of its headings and paragraphs, the text of  *)
(* its first detail link and the attributes of its first img.  An anchor   *)
(* carries its href and the chain of its ancestors, parent first.          *)
(***************************************************************************)

DETAIL_PATH == "/listings/detail/"

\* Element.matches('.name'): the class attribute holds the token name
hasClass(el, name) == includes(" " \o el.class \o " ", " " \o name \o " ")

\* the element of els at the least index of idx, or None
FirstAt(els, idx) ==
  IF idx = {} THEN None
  ELSE Some(els[CHOOSE ix \in idx : \A j \in idx : ix <= j])

\* the link itself, then its ancestors: the elements closest() looks at
Chain(link) == <<link>> \o link.up

\* link.closest('.name')
closestClass(link, name) ==
  FirstAt(Chain(link), {ix \in 1..Len(Chain(link)) : hasClass(Chain(link)[ix], name)})

\* link.closest('[class*="part"]')
closestClassContains(link, part) ==
  FirstAt(Chain(link), {ix \in 1..Len(Chain(link)) : includes(Chain(link)[ix].class, part)})

\* link.closest(tag)
closestTag(link, tag) ==
  FirstAt(Chain(link), {ix \in 1..Len(Chain(link)) : Chain(link)[ix].tag = tag})

\* findCardContainer: at most 10 ancestors, the first with 3 children,
\* 2 links and more than 50 characters of text
findCardContainer(element) ==
  FirstAt(element.up,
          {ix \in 1..Len(element.up) :
             /\ ix <= 10
             /\ element.up[ix].children >= 3
             /\ element.up[ix].links >= 2
             /\ Len(trim(element.up[ix].text)) > 50})

(***************************************************************************)
(* v1: extractListingData                                                  *)
(***************************************************************************)

\* /\$[\d,]+(?:\.\d{2})?/
ReRentV1 ==
  <<Lit("$"), Plus(ClsDigit \cup {","}), Opt(<<Lit("."), Rep(ClsDigit, 2, 2)>>)>>

\* /([\d,]+)\s*(?:SF|sq\s*ft|square\s*feet)/i
ReSqft ==
  <<Cap(1, <<Plus(ClsDigit \cup {","})>>), Star(ClsSpace),
    Alt(<< <<Lit("SF")>>,
           <<Lit("sq"), Star(ClsSpace), Lit("ft")>>,
           <<Lit("square"), Star(ClsSpace), Lit("feet")>> >>)>>

\* /(\d+\s+[A-Za-z0-9\s.,#-]+,\s*[A-Za-z\s]+,\s*[A-Z]{2}\s*\d{5})/
ReAddress ==
  <<Cap(1, <<Plus(ClsDigit), Plus(ClsSpace),
             Plus(ClsAlpha \cup ClsDigit \cup ClsSpace \cup {".", ",", "#", "-"}),
             Lit(","), Star(ClsSpace), Plus(ClsAlpha \cup ClsSpace),
             Lit(","), Star(ClsSpace), Rep(ClsUpper, 2, 2), Star(ClsSpace),
             Rep(ClsDigit, 5, 5)>>)>>

\* /,\s*([A-Za-z\s]+),\s*[A-Z]{2}/
ReCity ==
  <<Lit(","), Star(ClsSpace), Cap(1, <<Plus(ClsAlpha \cup ClsSpace)>>),
    Lit(","), Star(ClsSpace), Rep(ClsUpper, 2, 2)>>

\* /^(View|Apply|Map|Details)/i
ReLinkBoilerplate ==
  <<Bol, Alt(<< <<Lit("View")>>, <<Lit("Apply")>>, <<Lit("Map")>>, <<Lit("Details")>> >>)>>

\* /[A-Z][a-z].{50,500}/
ReSentence == <<One(ClsUpper), One(ClsLower), Rep(ClsDot, 50, 500)>>

\* /available\s*now/i
ReAvailableNow == <<Lit("available"), Star(ClsSpace), Lit("now")>>

\* /available\s+(\w+\s+\d{1,2},?\s*\d{4}|\w+\s+\d{4})/i
ReAvailableDateV1 ==
  <<Lit("available"), Plus(ClsSpace),
    Cap(1, <<Alt(<< <<Plus(ClsWord), Plus(ClsSpace), Rep(ClsDigit, 1, 2),
                      Opt(<<Lit(",")>>), Star(ClsSpace), Rep(ClsDigit, 4, 4)>>,
                    <<Plus(ClsWord), Plus(ClsSpace), Rep(ClsDigit, 4, 4)>> >>)>>)>>

\* /commercial\s*type:\s*(\w+)/i
ReCommercialType ==
  <<Lit("commercial"), Star(ClsSpace), Lit("type:"), Star(ClsSpace),
    Cap(1, <<Plus(ClsWord)>>)>>

\* /lease\s*type:\s*([A-Za-z\s]+?)(?:\s*Available|\s*$)/i
ReLeaseTypeV1 ==
  <<Lit("lease"), Star(ClsSpace), Lit("type:"), Star(ClsSpace),
    Cap(1, <<PlusLazy(ClsAlpha \cup ClsSpace)>>),
    Alt(<< <<Star(ClsSpace), Lit("Available")>>, <<Star(ClsSpace), Eol>> >>)>>

\* /\b(office|retail|industrial|warehouse|mixed[- ]use|medical|flex)\b/i
ReTypeWord ==
  <<WordBoundary,
    Cap(1, <<Alt(<< <<Lit("office")>>, <<Lit("retail")>>, <<Lit("industrial")>>,
                    <<Lit("warehouse")>>,
                    <<Lit("mixed"), One({"-", " "}), Lit("use")>>,
                    <<Lit("medical")>>, <<Lit("flex")>> >>)>>),
    WordBoundary>>

\* /\$([\d.]+)\s*\/(?:yr|mo|sf)/i
ReRentPerSFV1 ==
  <<Lit("$"), Cap(1, <<Plus(ClsDigit \cup {"."})>>), Star(ClsSpace), Lit("/"),
    Alt(<< <<Lit("yr")>>, <<Lit("mo")>>, <<Lit("sf")>> >>)>>

\* the strings of strs, trimmed
Trimmed(strs) == [ix \in 1..Len(strs) |-> trim(strs[ix])]

\* the first string of ts longer than min and shorter than max, or None
FirstHeading(ts, min, max) ==
  FirstAt(ts, {ix \in 1..Len(ts) : Len(ts[ix]) > min /\ Len(ts[ix]) < max})

\* propertyType.charAt(0).toUpperCase() + propertyType.slice(1)
capitalize(s) == IF s = "" THEN "" ELSE toUpperChar[Chr(s, 1)] \o Tail(s)

\* the text of the detail link when it is descriptive (lines 186-189)
linkTitle(linkText) ==
  IF Len(linkText) > 5 /\ ~test(ReLinkBoilerplate, linkText, TRUE)
  THEN Some(linkText) ELSE None

\* a title without its last fallback: the empty string when nothing names
\* the listing
titleOfUnnamed(heading, fromLink, address, uuid) ==
  IF heading # None /\ heading[1] # "" THEN heading[1]
  ELSE IF fromLink # None /\ fromLink[1] # "" THEN fromLink[1]
  ELSE IF address # None /\ address[1] # "" THEN address[1]
  ELSE ""

\* title: the heading, else the link text, else the address, else the
\* identifier (lines 172-191); an empty string is no title
titleOf(heading, fromLink, address, uuid) ==
  IF heading # None /\ heading[1] # "" THEN heading[1]
  ELSE IF fromLink # None /\ fromLink[1] # "" THEN fromLink[1]
  ELSE IF address # None /\ address[1] # "" THEN address[1]
  ELSE "Listing " \o slice0(uuid, 8)

titleV1(card, address, uuid) ==
  titleOf(FirstHeading(Trimmed(card.headings), 3, 200),
          IF card.detailLinkText = None THEN None
          ELSE linkTitle(trim(card.detailLinkText[1])),
          address, uuid)

\* the first paragraph of ps with more than 30 characters and no
\* 'Privacy Policy' (lines 196-203)
firstParagraph(ps) ==
  FirstAt(ps, {ix \in 1..Len(ps) :
                 Len(ps[ix]) > 30 /\ ~includes(ps[ix], "Privacy Policy")})

\* description.slice(0, 297) + '...' for a description of more than 300
capped(found) == IF Len(found) > 300 THEN slice0(found, 297) \o "..." ELSE found

\* the fallback of the description (lines 205-212)
sentenceOf(allText, descMatch) ==
  IF descMatch.found THEN capped(trim(Whole(allText, descMatch))) ELSE ""

fallbackDescription(allText) == sentenceOf(allText, match(ReSentence, allText, FALSE))

\* the description of a card (lines 193-212)
descriptionV1(card) ==
  Default(firstParagraph(Trimmed(card.paras)),
          fallbackDescription(trim(collapseSpace(card.text))))

\* the availability of a card (lines 214-221)
availableV1(text) ==
  IF test(ReAvailableNow, text, TRUE) THEN "Now"
  ELSE Default(GroupOf(text, match(ReAvailableDateV1, text, TRUE), 1),
               "Contact for availability")

\* status: available === 'Now' ? 'available' : 'coming-soon' (line 278)
statusV1(available) == IF available = "Now" THEN "available" ELSE "coming-soon"

\* one pattern of typePatterns: its group, trimmed and capitalized
typeOf(text, m, otherwise) ==
  IF m.found THEN capitalize(trim(Group(text, m, 1))) ELSE otherwise

\* the property type of a card (lines 223-238)
propertyTypeV1(text) ==
  typeOf(text, match(ReCommercialType, text, TRUE),
    typeOf(text, match(ReLeaseTypeV1, text, TRUE),
      typeOf(text, match(ReTypeWord, text, TRUE), "Commercial")))

\* rentPerSF: the stated rate, else rent / sqft * 12 when both are truthy
\* (lines 240-243)
rentPerSFOf(stated, rent, sqft) ==
  IF stated # None THEN stated
  ELSE IF rent # None /\ Truthy(rent[1]) /\ sqft # None /\ Truthy(sqft[1])
       THEN Some(annualPerSF(rent[1], sqft[1]))
  ELSE None

\* img.getAttribute('src') || img.getAttribute('data-src')
srcOf(img) == IF img.src # None /\ img.src[1] # "" THEN img.src ELSE img.dataSrc

\* a source that is no placeholder (lines 250-253)
usable(src) ==
  IF src # None /\ src[1] # "" /\ ~includes(src[1], "place_holder") THEN src ELSE None

\* the image of a card (lines 245-254)
imageUrlV1(card) == IF card.img = None THEN None ELSE usable(srcOf(card.img[1]))

HOST_V1 == "https://greyrockcommercial.appfolio.com"

\* city from address (after the first comma, before the state)
cityOf(address) ==
  IF address = None \/ address[1] = "" THEN None
  ELSE trimOpt(GroupOf(address[1], match(ReCity, address[1], FALSE), 1))

\* the address of a text (lines 167-168, 622-623)
addressOf(text) == trimOpt(GroupOf(text, match(ReAddress, text, FALSE), 1))

\* the record of extractListingData (lines 268-282)
\* rentSFMatch ? parseFloat(rentSFMatch[1]) : ... (lines 241-242)
statedRateV1(text) ==
  parseFloatOpt(GroupOf(text, match(ReRentPerSFV1, text, TRUE), 1), {})

recordV1(card, uuid, rent, sqft, address, available) ==
  [id |-> uuid,
   title |-> titleV1(card, address, uuid),
   address |-> address,
   city |-> cityOf(address),
   type |-> propertyTypeV1(card.text),
   rent |-> rent,
   sqft |-> sqft,
   rentPerSF |-> rentPerSFOf(statedRateV1(card.text), rent, sqft),
   description |-> descriptionV1(card),
   available |-> available,
   status |-> statusV1(available),
   imageUrl |-> imageUrlV1(card),
   detailUrl |-> HOST_V1 \o "/listings/detail/" \o uuid,
   applyUrl |-> HOST_V1 \o "/listings/rental_applications/new?listable_uid="
                \o uuid \o "&source=Website",
   lat |-> None,
   lng |-> None]

extractListingData(card, uuid) ==
  recordV1(card, uuid,
           parseFloatOpt(WholeOf(card.text, match(ReRentV1, card.text, FALSE)), {"$", ","}),
           parseIntOpt(GroupOf(card.text, match(ReSqft, card.text, TRUE), 1), {","}),
           addressOf(card.text),
           availableV1(card.text))

(***************************************************************************)
(* v2: parseDetailPage.  A detail page is the record of what the parser    *)
(* reads: body textContent, the texts of h1-h3, of <title>, of the         *)
(* description element and of the paragraphs, and the src / data-src of    *)
(* the gallery images and of all images.                                   *)
(***************************************************************************)

\* /(?:RENT|Rent)\s*\$?([\d,]+(?:\.\d{2})?)/
ReRentV2 ==
  <<Alt(<< <<Lit("RENT")>>, <<Lit("Rent")>> >>), Star(ClsSpace), Opt(<<Lit("$")>>),
    Cap(1, <<Plus(ClsDigit \cup {","}), Opt(<<Lit("."), Rep(ClsDigit, 2, 2)>>)>>)>>

\* /(?:SQUARE FEET|Square Feet|Sq\.?\s*Ft\.?)\s*([\d,]+)/i
ReSqftLabelV2 ==
  <<Alt(<< <<Lit("SQUARE FEET")>>, <<Lit("Square Feet")>>,
           <<Lit("Sq"), Opt(<<Lit(".")>>), Star(ClsSpace), Lit("Ft"), Opt(<<Lit(".")>>)>> >>),
    Star(ClsSpace), Cap(1, <<Plus(ClsDigit \cup {","})>>)>>

\* /(?:RENT\s*\/\s*SF|Rent\s*\/\s*SF)\s*\$?([\d,.]+)\s*\/yr/i
ReRentPerSFLabelV2 ==
  <<Alt(<< <<Lit("RENT"), Star(ClsSpace), Lit("/"), Star(ClsSpace), Lit("SF")>>,
           <<Lit("Rent"), Star(ClsSpace), Lit("/"), Star(ClsSpace), Lit("SF")>> >>),
    Star(ClsSpace), Opt(<<Lit("$")>>), Cap(1, <<Plus(ClsDigit \cup {",", "."})>>),
    Star(ClsSpace), Lit("/yr")>>

\* /\$([\d,.]+)\s*\/(?:yr|sf)/i
ReRentPerSFV2 ==
  <<Lit("$"), Cap(1, <<Plus(ClsDigit \cup {",", "."})>>), Star(ClsSpace), Lit("/"),
    Alt(<< <<Lit("yr")>>, <<Lit("sf")>> >>)>>

\* /(?:AVAILABLE|Available)\s+(\d{1,2}\/\d{1,2}\/\d{2,4})/i
ReAvailableSlashDate ==
  <<Alt(<< <<Lit("AVAILABLE")>>, <<Lit("Available")>> >>), Plus(ClsSpace),
    Cap(1, <<Rep(ClsDigit, 1, 2), Lit("/"), Rep(ClsDigit, 1, 2), Lit("/"),
             Rep(ClsDigit, 2, 4)>>)>>

\* /(?:AVAILABLE|Available)\s+(Now)/i
ReAvailableNowV2 ==
  <<Alt(<< <<Lit("AVAILABLE")>>, <<Lit("Available")>> >>), Plus(ClsSpace),
    Cap(1, <<Lit("Now")>>)>>

\* /(?:AVAILABLE|Available)\s+(\w+\s+\d{1,2},?\s*\d{4})/i
ReAvailableDateV2 ==
  <<Alt(<< <<Lit("AVAILABLE")>>, <<Lit("Available")>> >>), Plus(ClsSpace),
    Cap(1, <<Plus(ClsWord), Plus(ClsSpace), Rep(ClsDigit, 1, 2), Opt(<<Lit(",")>>),
             Star(ClsSpace), Rep(ClsDigit, 4, 4)>>)>>

\* /now/i
ReNow == <<Lit("now")>>

\* /^(Current|Rental|Apply)/i
ReHeadingBoilerplate ==
  <<Bol, Alt(<< <<Lit("Current")>>, <<Lit("Rental")>>, <<Lit("Apply")>> >>)>>

\* /Lease\s*Type:\s*(\w+)/i
ReLeaseTypeV2 ==
  <<Lit("Lease"), Star(ClsSpace), Lit("Type:"), Star(ClsSpace), Cap(1, <<Plus(ClsWord)>>)>>

\* /Utilities\s*Included:\s*([^\n]+)/i
ReUtilities ==
  <<Lit("Utilities"), Star(ClsSpace), Lit("Included:"), Star(ClsSpace),
    Cap(1, <<Plus(AllChars \ {"\n"})>>)>>

\* src is kept: no logo, and a CDN image (the fallback) or no placeholder
\* (the gallery), and not in acc yet
keepSource(src, cdnOnly, acc) ==
  /\ src # None /\ src[1] # ""
  /\ ~includes(src[1], "large.png")
  /\ (IF cdnOnly THEN includes(src[1], "images.cdn.appfolio.com")
      ELSE ~includes(src[1], "place_holder"))
  /\ \A ix \in 1..Len(acc) : acc[ix] # src[1]

addSource(src, cdnOnly, acc) ==
  IF keepSource(src, cdnOnly, acc) THEN Append(acc, src[1]) ELSE acc

\* the sources of imgs that are kept, in order, each once
RECURSIVE uniqueSources(_, _, _)
uniqueSources(imgs, cdnOnly, acc) ==
  IF imgs = <<>> THEN acc
  ELSE uniqueSources(Tail(imgs), cdnOnly, addSource(srcOf(Head(imgs)), cdnOnly, acc))

galleryOr(gallery, allImgs) ==
  IF Len(gallery) = 0 THEN uniqueSources(allImgs, TRUE, <<>>) ELSE gallery

\* the gallery images of a page, else its CDN images (lines 587-606)
imageUrlsV2(page) == galleryOr(uniqueSources(page.galleryImgs, FALSE, <<>>), page.allImgs)

\* the first heading of ts that can be a title (lines 610-617)
headingV2(ts) ==
  FirstAt(ts, {ix \in 1..Len(ts) :
                 /\ Len(ts[ix]) > 5
                 /\ Len(ts[ix]) < 300
                 /\ ~test(ReHeadingBoilerplate, ts[ix], TRUE)})

\* the title of a page (lines 608-620)
titleV2(page, uuid) ==
  titleOf(headingV2(Trimmed(page.headings)), trimOpt(page.docTitle), None, uuid)

longer(pText, longest) ==
  IF Len(pText) > Len(longest) /\ ~includes(pText, "Privacy Policy")
  THEN pText ELSE longest

\* the longest of the paragraphs that does not hold 'Privacy Policy', the
\* first of them among equals
RECURSIVE longestParagraph(_, _)
longestParagraph(paras, longest) ==
  IF paras = <<>> THEN longest
  ELSE longestParagraph(Tail(paras), longer(trim(Head(paras)), longest))

orLongest(fromEl, paras) ==
  IF fromEl # None /\ fromEl[1] # "" THEN fromEl[1] ELSE longestParagraph(paras, "")

\* the description of a page (lines 626-642)
descriptionV2(page) == orLongest(trimOpt(page.descEl), page.paras)

\* the availability of a page (lines 658-665)
availableV2(text) ==
  Default(trimOpt(GroupOf(text,
                          OrMatch(match(ReAvailableSlashDate, text, TRUE),
                                  OrMatch(match(ReAvailableNowV2, text, TRUE),
                                          match(ReAvailableDateV2, text, TRUE))),
                          1)),
          "Contact for availability")

\* status: /now/i.test(available) ? 'available' : 'coming-soon' (line 704)
statusV2(available) == IF test(ReNow, available, TRUE) THEN "available" ELSE "coming-soon"

BASE_URL == "https://greyrockcommercial.appfolio.com"

\* imageUrls[0] || null
firstSource(imageUrls) ==
  IF Len(imageUrls) > 0 /\ imageUrls[1] # "" THEN Some(imageUrls[1]) ELSE None

\* the record of parseDetailPage (lines 690-711)
\* rentSFMatch ? parseFloat(rentSFMatch[1].replace(/,/g, '')) : null (lines
\* 654-656)
statedRateV2(text) ==
  parseFloatOpt(GroupOf(text,
                        OrMatch(match(ReRentPerSFLabelV2, text, TRUE),
                                match(ReRentPerSFV2, text, TRUE)),
                        1),
                {","})

recordV2(page, uuid, address, available, imageUrls) ==
  [id |-> uuid,
   title |-> titleV2(page, uuid),
   address |-> address,
   city |-> cityOf(address),
   type |-> Default(trimOpt(GroupOf(page.text, match(ReCommercialType, page.text, TRUE), 1)),
                    "Commercial"),
   leaseType |-> trimOpt(GroupOf(page.text, match(ReLeaseTypeV2, page.text, TRUE), 1)),
   rent |-> parseFloatOpt(GroupOf(page.text, match(ReRentV2, page.text, FALSE), 1), {","}),
   sqft |-> parseIntOpt(GroupOf(page.text,
                                OrMatch(match(ReSqftLabelV2, page.text, TRUE),
                                        match(ReSqft, page.text, TRUE)),
                                1),
                        {","}),
   rentPerSF |-> statedRateV2(page.text),
   description |-> descriptionV2(page),
   available |-> available,
   status |-> statusV2(available),
   utilities |-> trimOpt(GroupOf(page.text, match(ReUtilities, page.text, TRUE), 1)),
   imageUrl |-> firstSource(imageUrls),
   imageUrls |-> imageUrls,
   detailUrl |-> BASE_URL \o "/listings/detail/" \o uuid,
   applyUrl |-> BASE_URL \o "/listings/rental_applications/new?listable_uid="
                \o uuid \o "&source=Website",
   lat |-> None,
   lng |-> None]

parseDetailPage(page, uuid) ==
  recordV2(page, uuid, addressOf(page.text), availableV2(page.text), imageUrlsV2(page))

(***************************************************************************)
(* Geocoding                                                               *)
(***************************************************************************)

Coord(lat, lng) == [lat |-> Norm(lat, 4), lng |-> Norm(lng, 4)]

\* CHARLOTTE_METRO_COORDS without its 'default' entry
CHARLOTTE_METRO_COORDS ==
  [n \in {"charlotte", "concord", "gastonia", "huntersville", "mooresville",
          "cornelius", "davidson", "matthews", "mint hill", "pineville",
          "indian trail", "harrisburg", "kannapolis", "rock hill", "fort mill",
          "columbia"} |->
     CASE n = "charlotte" -> Coord(352271, -808431)
       [] n = "concord" -> Coord(354088, -805795)
       [] n = "gastonia" -> Coord(352621, -811873)
       [] n = "huntersville" -> Coord(354107, -808429)
       [] n = "mooresville" -> Coord(355849, -808101)
       [] n = "cornelius" -> Coord(354868, -808601)
       [] n = "davidson" -> Coord(354993, -808487)
       [] n = "matthews" -> Coord(351168, -807237)
       [] n = "mint hill" -> Coord(351796, -806468)
       [] n = "pineville" -> Coord(350832, -808923)
       [] n = "indian trail" -> Coord(350760, -806593)
       [] n = "harrisburg" -> Coord(353264, -806555)
       [] n = "kannapolis" -> Coord(354874, -806217)
       [] n = "rock hill" -> Coord(349249, -810251)
       [] n = "fort mill" -> Coord(350074, -809451)
       [] n = "columbia" -> Coord(340007, -810348)]

\* the entries NC_METRO_COORDS adds to them
NC_METRO_EXTRA ==
  [n \in {"rockwell", "salisbury", "china grove", "landis"} |->
     CASE n = "rockwell" -> Coord(355513, -804024)
       [] n = "salisbury" -> Coord(356710, -804742)
       [] n = "china grove" -> Coord(355699, -805818)
       [] n = "landis" -> Coord(355463, -806107)]

\* the 'default' entry of both tables
DEFAULT_COORDS == Coord(353200, -808500)

\* the lowercase names every object literal inherits from Object.prototype;
\* their values are truthy and have neither lat nor lng
INHERITED_KEYS == {"constructor", "__proto__"}

\* coords.lat and coords.lng of such a value are undefined, and undefined
\* plus a number is NaN
NO_COORDS == [lat |-> NaN, lng |-> NaN]

\* table[key] || otherwise
Lookup(table, key, otherwise) ==
  IF key \in DOMAIN table THEN table[key]
  ELSE IF key \in INHERITED_KEYS THEN NO_COORDS
  ELSE otherwise

\* city.toLowerCase().trim()
keyOf(city) == trim(toLowerCase(city))

\* geocodeCity (v1): 'default' is itself a key of the table
geocodeCityV1(city) ==
  IF city = None \/ city[1] = "" THEN DEFAULT_COORDS
  ELSE Lookup(CHARLOTTE_METRO_COORDS, keyOf(city[1]), DEFAULT_COORDS)

\* NC_METRO_COORDS[key] || NC_METRO_COORDS['default']
lookupV2(key) ==
  Lookup(CHARLOTTE_METRO_COORDS, key, Lookup(NC_METRO_EXTRA, key, DEFAULT_COORDS))

\* geocodeCity (v2)
geocodeCityV2(city) ==
  IF city = None \/ city[1] = "" THEN DEFAULT_COORDS ELSE lookupV2(keyOf(city[1]))

\* Math.random() is a value r / 100; the k-th call of a run (k = 0, 1, ...)
\* returns the next value of a cycle that starts at the run's seed
RandomValues == <<25, 75>>
Seeds == 0..(Len(RandomValues) - 1)
random(seed, k) == RandomValues[((seed + k) % Len(RandomValues)) + 1]

\* (Math.random() - 0.5) * 0.01 and (Math.random() - 0.5) * 0.005
jitterV1(r) == Norm(r - 50, 4)
jitterV2(r) == Norm((r - 50) * 5, 5)

\* a geocoding step that also writes the key of the lookup into the record
placedWithKey(listing, coords, dlat, dlng) ==
  [listing EXCEPT !.lat = Some(AddNum(coords.lat, dlat)),
                  !.lng = Some(AddNum(coords.lng, dlng)),
                  !.city = IF @ = None THEN Some("default") ELSE Some(keyOf(@[1]))]

\* listing.lat = coords.lat + dlat; listing.lng = coords.lng + dlng
placed(listing, coords, dlat, dlng) ==
  [listing EXCEPT !.lat = Some(AddNum(coords.lat, dlat)),
                  !.lng = Some(AddNum(coords.lng, dlng))]

\* step 3 (v1) / step 4 (v2): lat and lng of the j-th listing of a run
geocodeListingV1(listing, j, seed) ==
  placed(listing, geocodeCityV1(listing.city),
         jitterV1(random(seed, 2 * j - 2)), jitterV1(random(seed, 2 * j - 1)))

geocodeListingV2(listing, j, seed) ==
  placed(listing, geocodeCityV2(listing.city),
         jitterV2(random(seed, 2 * j - 2)), jitterV2(random(seed, 2 * j - 1)))

geocodeAllV1(records, seed) ==
  [j \in 1..Len(records) |-> geocodeListingV1(records[j], j, seed)]

geocodeAllV2(records, seed) ==
  [j \in 1..Len(records) |-> geocodeListingV2(records[j], j, seed)]

(***************************************************************************)
(* Validation                                                              *)
(***************************************************************************)

\* the ceiling of the listing count and of rent and sqft
MAX_LISTINGS == 200
SUSPICIOUS == 1000000

\* !value for an optional string, an optional number
MissingStr(v) == v = None \/ v[1] = ""
FalsyNum(v) == v = None \/ ~Truthy(v[1])

\* the warnings of the first loop for one listing (v1: lines 320-330)
missingWarningsV1(listing) ==
  (IF MissingStr(listing.address)
   THEN <<"Listing " \o listing.id \o ": missing address">> ELSE <<>>)
  \o (IF FalsyNum(listing.rent) /\ listing.rent # Some(IntNum(0))
      THEN <<"Listing " \o listing.id \o ": missing rent">> ELSE <<>>)
  \o (IF FalsyNum(listing.sqft)
      THEN <<"Listing " \o listing.id \o ": missing sqft">> ELSE <<>>)

\* the warnings of the first loop for one listing (v2: lines 751-756)
missingWarningsV2(listing) ==
  missingWarningsV1(listing)
  \o (IF MissingStr(listing.imageUrl)
      THEN <<"Listing " \o listing.id \o ": no images found">> ELSE <<>>)

\* the warnings of the second loop for one listing (lines 337-344, 762-769)
suspiciousWarnings(listing) ==
  (IF ~FalsyNum(listing.rent) /\ GreaterThan(listing.rent[1], SUSPICIOUS)
   THEN <<"Listing " \o listing.id \o ": suspiciously high rent $"
          \o NumStr(listing.rent[1])>> ELSE <<>>)
  \o (IF ~FalsyNum(listing.sqft) /\ GreaterThan(listing.sqft[1], SUSPICIOUS)
      THEN <<"Listing " \o listing.id \o ": suspiciously high sqft "
             \o NumStr(listing.sqft[1])>> ELSE <<>>)

\* a validation whose ceiling is reached one listing earlier
validateListingsBelow(records) ==
  [errors |-> IF Len(records) >= MAX_LISTINGS
              THEN <<"Unexpectedly high listing count: " \o DecStr(Len(records))
                     \o ". Possible parse error.">>
              ELSE <<>>,
   warnings |-> <<>>,
   valid |-> Len(records) < MAX_LISTINGS]

validateListingsV1(records) ==
  LET warnings == Flatten([j \in 1..Len(records) |-> missingWarningsV1(records[j])])
                  \o Flatten([j \in 1..Len(records) |-> suspiciousWarnings(records[j])])
      errors == IF Len(records) > MAX_LISTINGS
                THEN <<"Unexpectedly high listing count: " \o DecStr(Len(records))
                       \o ". Possible parse error.">>
                ELSE <<>>
  IN [errors |-> errors, warnings |-> warnings, valid |-> Len(errors) = 0]

validateListingsV2(records) ==
  LET warnings == Flatten([j \in 1..Len(records) |-> missingWarningsV2(records[j])])
                  \o Flatten([j \in 1..Len(records) |-> suspiciousWarnings(records[j])])
      errors == IF Len(records) > MAX_LISTINGS
                THEN <<"Unexpectedly high listing count: " \o DecStr(Len(records))>>
                ELSE <<>>
  IN [errors |-> errors, warnings |-> warnings, valid |-> Len(errors) = 0]

(***************************************************************************)
(* JSON.stringify(listings), the input of the content hash                 *)
(***************************************************************************)

\* the JSON escape of the characters of the model that need one
jsonEscapeChar(c) ==
  CASE c = "\"" -> "\\\""
    [] c = "\\" -> "\\\\"
    [] c = "\n" -> "\\n"
    [] c = "\t" -> "\\t"
    [] OTHER -> c

jsonEscape(s) == Join([ix \in 1..Len(s) |-> jsonEscapeChar(Chr(s, ix))])

jsonStr(s) == "\"" \o jsonEscape(s) \o "\""
jsonOptStr(v) == IF v = None THEN "null" ELSE jsonStr(v[1])
\* NaN is written as null
jsonNum(a) == IF a.nan THEN "null" ELSE NumStr(a)
jsonOptNum(v) == IF v = None THEN "null" ELSE jsonNum(v[1])

\* parts joined by commas
joinComma(parts) ==
  Join([k \in 1..Len(parts) |-> IF k = 1 THEN parts[k] ELSE "," \o parts[k]])

\* lat and lng exist only once the geocoding step has set them
jsonCoords(listing) ==
  (IF listing.lat = None THEN "" ELSE ",\"lat\":" \o jsonNum(listing.lat[1]))
  \o (IF listing.lng = None THEN "" ELSE ",\"lng\":" \o jsonNum(listing.lng[1]))

jsonListingV1(l) ==
  "{\"id\":" \o jsonStr(l.id)
  \o ",\"title\":" \o jsonStr(l.title)
  \o ",\"address\":" \o jsonOptStr(l.address)
  \o ",\"city\":" \o jsonOptStr(l.city)
  \o ",\"type\":" \o jsonStr(l.type)
  \o ",\"rent\":" \o jsonOptNum(l.rent)
  \o ",\"sqft\":" \o jsonOptNum(l.sqft)
  \o ",\"rentPerSF\":" \o jsonOptNum(l.rentPerSF)
  \o ",\"description\":" \o jsonStr(l.description)
  \o ",\"available\":" \o jsonStr(l.available)
  \o ",\"status\":" \o jsonStr(l.status)
  \o ",\"imageUrl\":" \o jsonOptStr(l.imageUrl)
  \o ",\"detailUrl\":" \o jsonStr(l.detailUrl)
  \o ",\"applyUrl\":" \o jsonStr(l.applyUrl)
  \o jsonCoords(l) \o "}"

jsonListingV2(l) ==
  "{\"id\":" \o jsonStr(l.id)
  \o ",\"title\":" \o jsonStr(l.title)
  \o ",\"address\":" \o jsonOptStr(l.address)
  \o ",\"city\":" \o jsonOptStr(l.city)
  \o ",\"type\":" \o jsonStr(l.type)
  \o ",\"leaseType\":" \o jsonOptStr(l.leaseType)
  \o ",\"rent\":" \o jsonOptNum(l.rent)
  \o ",\"sqft\":" \o jsonOptNum(l.sqft)
  \o ",\"rentPerSF\":" \o jsonOptNum(l.rentPerSF)
  \o ",\"description\":" \o jsonStr(l.description)
  \o ",\"available\":" \o jsonStr(l.available)
  \o ",\"status\":" \o jsonStr(l.status)
  \o ",\"utilities\":" \o jsonOptStr(l.utilities)
  \o ",\"imageUrl\":" \o jsonOptStr(l.imageUrl)
  \o ",\"imageUrls\":[" \o joinComma([ix \in 1..Len(l.imageUrls) |-> jsonStr(l.imageUrls[ix])]) \o "]"
  \o ",\"detailUrl\":" \o jsonStr(l.detailUrl)
  \o ",\"applyUrl\":" \o jsonStr(l.applyUrl)
  \o jsonCoords(l) \o "}"

stringifyV1(records) ==
  "[" \o joinComma([j \in 1..Len(records) |-> jsonListingV1(records[j])]) \o "]"

stringifyV2(records) ==
  "[" \o joinComma([j \in 1..Len(records) |-> jsonListingV2(records[j])]) \o "]"

(***************************************************************************)
(* Index parsing.  A document is [text, anchors]: the text content of its  *)
(* body and its <a> elements in document order.                            *)
(***************************************************************************)

\* /\/listings\/detail\/([a-f0-9-]+)/
ReDetailUuid == <<Lit(DETAIL_PATH), Cap(1, <<Plus(ClsHexDash)>>)>>

NO_VACANCY_PHRASES == <<"no available properties", "No vacancies found", "no vacancies">>

\* doc.querySelectorAll('a[href*="/listings/detail/"]')
detailLinksOf(doc) == SelectSeq(doc.anchors, LAMBDA a : includes(a.href, DETAIL_PATH))

\* doc.body.textContent.includes(...) || ... || ...
saysNoVacancies(doc) ==
  \E k \in 1..Len(NO_VACANCY_PHRASES) : includes(doc.text, NO_VACANCY_PHRASES[k])

\* href.match(...)[1], or None when the href holds no identifier
uuidOf(link) == GroupOf(link.href, match(ReDetailUuid, link.href, FALSE), 1)

\* the card of a link (v1 lines 116-119)
cardOf(link) ==
  OrElse(closestClass(link, "listing-item"),
         OrElse(closestClassContains(link, "listing"),
                OrElse(closestTag(link, "li"), findCardContainer(link))))

\* lines 116-130 for a link with identifier uuid and container card
cardResult(uuid, card) ==
  [uuid |-> Some(uuid),
   card |-> card,
   listing |-> IF card = None THEN None ELSE Some(extractListingData(card[1], uuid))]

linkResult(link, uuid) ==
  IF uuid = None THEN [uuid |-> None, card |-> None, listing |-> None]
  ELSE cardResult(uuid[1], cardOf(link))

\* the body of detailLinks.forEach without its test of seenUUIDs
processLink(link) == linkResult(link, uuidOf(link))

\* s holds x
InSeq(x, s) == \E k \in 1..Len(s) : s[k] = x

(***************************************************************************)
(* The documents of the model: an index page is a sequence of blocks       *)
(* (listing cards, stray links, a notice), a detail page belongs to one    *)
(* identifier.                                                             *)
(***************************************************************************)

Element(tag, class, children, links, text) ==
  [tag |-> tag, class |-> class, children |-> children, links |-> links,
   text |-> text, headings |-> <<>>, paras |-> <<>>, detailLinkText |-> None,
   img |-> None]

Anchor(href, text, up) ==
  [tag |-> "a", class |-> "", children |-> 0, links |-> 0, text |-> text,
   headings |-> <<>>, paras |-> <<>>, detailLinkText |-> None, img |-> None,
   href |-> href, up |-> up]

Img(src) == [src |-> Some(src), dataSrc |-> None]

UuidA == "a1b2c3d4-e5f6"
UuidB == "0f9e8d7c-6b5a"
UuidN == "77aa0000-1111"

CardA ==
  [Element("li", "listing-item", 4, 2,
           "Corner Office Suite 123 Main St, Charlotte, NC 28202 $2,500 1,200 SF Available Now View Details")
   EXCEPT !.headings = <<"Corner Office Suite">>,
          !.detailLinkText = Some("Corner Office Suite"),
          !.img = Some(Img("https://images.cdn.appfolio.com/greyrock/a1.jpg"))]

CardB ==
  [Element("div", "js-listing-card", 3, 1,
           "Warehouse Bay 456 Oak Ave, Concord, NC 28025 RENT $4,000 Available March 1, 2026")
   EXCEPT !.headings = <<"Warehouse Bay">>,
          !.detailLinkText = Some("View Details")]

\* a footer paragraph: no class, one child, one link
FooterP == Element("p", "", 1, 1, "Featured property")
Footer == Element("footer", "", 2, 1, "Featured property Contact us")

\* the blocks: their text and their anchors
BlockA == [text |-> CardA.text,
           anchors |-> <<Anchor(DETAIL_PATH \o UuidA, "Corner Office Suite", <<CardA>>)>>]
BlockB == [text |-> CardB.text,
           anchors |-> <<Anchor("https://greyrockcommercial.appfolio.com" \o DETAIL_PATH \o UuidB,
                                "View Details", <<CardB>>)>>]
\* a detail link outside every card
BlockN == [text |-> FooterP.text,
           anchors |-> <<Anchor(DETAIL_PATH \o UuidN, "Featured property", <<FooterP, Footer>>)>>]
\* a detail link whose href holds no identifier
BlockX == [text |-> "View all",
           anchors |-> <<Anchor(DETAIL_PATH \o "XYZ", "View all", <<FooterP, Footer>>)>>]
\* a link that is no detail link
BlockC == [text |-> "Contact us",
           anchors |-> <<Anchor("/contact", "Contact us", <<FooterP, Footer>>)>>]
\* the notice of an empty inventory
BlockP == [text |-> "No vacancies found", anchors |-> <<>>]

Blocks == {BlockA, BlockB, BlockN, BlockX, BlockC, BlockP}

\* the longest index page of the enumeration, in blocks
MaxBlocks == 3

RECURSIVE BlockSeqs(_)
BlockSeqs(n) ==
  IF n = 0 THEN {<<>>}
  ELSE BlockSeqs(n - 1)
       \cup {Append(s, b) : s \in {q \in BlockSeqs(n - 1) : Len(q) = n - 1}, b \in Blocks}

JoinText(bs) == Join([k \in 1..Len(bs) |-> " " \o bs[k].text])

Document(bs) ==
  [text |-> "Greyrock Commercial" \o JoinText(bs),
   anchors |-> Flatten([k \in 1..Len(bs) |-> bs[k].anchors])]

\* every index page of at most MaxBlocks blocks
EnumDocs == {Document(bs) : bs \in BlockSeqs(MaxBlocks)}

\* the index pages the site serves from one run to the next
SiteDocs ==
  {Document(<<BlockA, BlockB>>), Document(<<BlockA>>), Document(<<BlockA, BlockN>>),
   Document(<<BlockN>>), Document(<<BlockX>>), Document(<<BlockC>>),
   Document(<<BlockP>>)}

Page(text, headings, descEl, imgs) ==
  [text |-> text, headings |-> headings, docTitle |-> Some("Greyrock Commercial"),
   descEl |-> descEl, paras |-> <<>>, galleryImgs |-> imgs, allImgs |-> imgs]

PageA ==
  Page("Corner Office Suite 123 Main St, Charlotte, NC 28202 RENT $2,500 SQUARE FEET 1,200 Available Now Commercial Type: Office Lease Type: NNN",
       <<"Corner Office Suite">>, Some("Bright corner suite with parking."),
       <<Img("https://images.cdn.appfolio.com/greyrock/a1.jpg"),
         Img("https://images.cdn.appfolio.com/greyrock/a2.jpg"),
         Img("https://images.cdn.appfolio.com/greyrock/a1.jpg")>>)

PageB ==
  Page("Warehouse Bay 456 Oak Ave, Concord, NC 28025 Rent $4,000 AVAILABLE NOW",
       <<"Warehouse Bay">>, None, <<>>)

PageN ==
  Page("Retail Corner 9 Elm St, Rockwell, NC 28138 Square Feet 900 Available June 1, 2026",
       <<"Retail Corner">>, None,
       <<Img("https://images.cdn.appfolio.com/greyrock/n1.jpg")>>)

\* an inventory above the ceiling of validateListings: n cards that differ
\* in their identifier only
BulkUuid(k) == "b0-" \o PadLeft(DecStr(k), 3)

BulkCard ==
  [Element("li", "listing-item", 4, 2, "Unit $900")
   EXCEPT !.headings = <<"Unit">>]

BulkBlock(k) ==
  [text |-> BulkCard.text,
   anchors |-> <<Anchor(DETAIL_PATH \o BulkUuid(k), "Unit", <<BulkCard>>)>>]

BulkDoc(n) == Document([k \in 1..n |-> BulkBlock(k)])

\* 200 listings, 201 listings, and a page without listings
CeilingDocs ==
  {BulkDoc(MAX_LISTINGS), BulkDoc(MAX_LISTINGS + 1), Document(<<BlockP>>)}

BulkPage ==
  Page("Unit RENT $900", <<"Unit">>, None, <<>>)

\* the detail page the site serves for an identifier
PageOf(uuid) ==
  CASE uuid = UuidA -> PageA
    [] uuid = UuidB -> PageB
    [] uuid = UuidN -> PageN
    [] OTHER -> BulkPage

\* the identifiers whose detail page may fail to load
Flaky == {UuidA, UuidN}

AllDocs == SiteDocs \cup CeilingDocs \cup EnumDocs

(***************************************************************************)
(* parseListings and parseIndexPage.  What they compute for one anchor is  *)
(* computed once for each anchor of the model (f @@ <<>> is f, written out *)
(* entry by entry).                                                        *)
(***************************************************************************)

Range(seq) == {seq[k] : k \in 1..Len(seq)}

AllAnchors == UNION {Range(d.anchors) : d \in AllDocs}

processedLinks == [a \in AllAnchors |-> processLink(a)] @@ <<>>

processLinkOf(link) == processedLinks[link]

linkUuids == [a \in AllAnchors |-> uuidOf(a)] @@ <<>>

uuidOfLink(link) == linkUuids[link]

\* a set that forgets what it holds
SetHasNothing(seen, x) == FALSE

\* Set.prototype.has on a set kept as the sequence of its insertions
SetHas(seen, x) == InSeq(x, seen)

\* the body of detailLinks.forEach (lines 105-130) on the accumulator
\* [seenUUIDs, listings, warned], for a link that processLink turned into r
linkStep(acc, r) ==
  IF r.uuid = None THEN acc
  ELSE IF SetHas(acc.seenUUIDs, r.uuid[1]) THEN acc
  ELSE IF r.card = None
       THEN [acc EXCEPT !.seenUUIDs = Append(@, r.uuid[1]),
                        !.warned = Append(@, r.uuid[1])]
       ELSE [acc EXCEPT !.seenUUIDs = Append(@, r.uuid[1]),
                        !.listings = Append(@, r.listing[1])]

\* detailLinks.forEach over links[a..b], by halves, the lower half first
RECURSIVE forEachLink(_, _, _, _)
forEachLink(acc, links, a, b) ==
  IF a > b THEN acc
  ELSE IF a = b THEN linkStep(acc, processLinkOf(links[a]))
  ELSE LET lower == forEachLink(acc, links, a, (a + b) \div 2)
       IN IF Len(lower.seenUUIDs) >= 0
          THEN forEachLink(lower, links, ((a + b) \div 2) + 1, b)
          ELSE lower

STRUCTURE_CHANGED ==
  "STRUCTURE_CHANGED: Could not find listing detail links or vacancy status"

\* what parseListings returns after its loop; seenUUIDs and warned are what
\* it logs
collected(acc) ==
  [threw |-> None, listings |-> acc.listings, noVacancies |-> FALSE,
   seenUUIDs |-> acc.seenUUIDs, warned |-> acc.warned]

\* parseListings on its detail links (lines 87-133)
parseLinks(doc, detailLinks) ==
  IF Len(detailLinks) > 0
  THEN collected(forEachLink([seenUUIDs |-> <<>>, listings |-> <<>>, warned |-> <<>>],
                             detailLinks, 1, Len(detailLinks)))
  ELSE IF saysNoVacancies(doc)
  THEN [threw |-> None, listings |-> <<>>, noVacancies |-> TRUE,
        seenUUIDs |-> <<>>, warned |-> <<>>]
  ELSE [threw |-> Some(STRUCTURE_CHANGED), listings |-> <<>>, noVacancies |-> FALSE,
        seenUUIDs |-> <<>>, warned |-> <<>>]

\* parseListings (v1): what it returns, or the message of what it throws
parseListings(doc) == parseLinks(doc, detailLinksOf(doc))

\* [...new Set(xs)] for xs[a..b] added to seen, by halves, the lower half first
RECURSIVE SetOf(_, _, _, _)
SetOf(seen, xs, a, b) ==
  IF a > b THEN seen
  ELSE IF a = b THEN (IF SetHas(seen, xs[a]) THEN seen ELSE Append(seen, xs[a]))
  ELSE LET lower == SetOf(seen, xs, a, (a + b) \div 2)
       IN IF Len(lower) >= 0 THEN SetOf(lower, xs, ((a + b) \div 2) + 1, b) ELSE lower

\* [...new Set(found)]
unique(found) == SetOf(<<>>, found, 1, Len(found))

\* parseIndexPage on its detail links (lines 559-577)
indexLinks(doc, detailLinks) ==
  IF Len(detailLinks) > 0
  THEN [threw |-> None,
        \* .map(...).filter(Boolean)
        uuids |-> unique(Flatten([k \in 1..Len(detailLinks) |-> uuidOfLink(detailLinks[k])])),
        noVacancies |-> FALSE]
  ELSE IF saysNoVacancies(doc)
  THEN [threw |-> None, uuids |-> <<>>, noVacancies |-> TRUE]
  ELSE [threw |-> Some(STRUCTURE_CHANGED), uuids |-> <<>>, noVacancies |-> FALSE]

\* parseIndexPage (v2)
parseIndexPage(doc) == indexLinks(doc, detailLinksOf(doc))

(***************************************************************************)
(* The functions above over the documents of the model, computed once.     *)
(***************************************************************************)

parsedV1 == [d \in AllDocs |-> parseListings(d)] @@ <<>>
parsedV2 == [d \in AllDocs |-> parseIndexPage(d)] @@ <<>>

parseListingsOf(doc) == parsedV1[doc]

parseIndexPageOf(doc) == parsedV2[doc]

AllUuids == UNION {Range(parseIndexPageOf(d).uuids) : d \in AllDocs}

detailRecords ==
  [q \in {<<PageOf(u), u>> : u \in AllUuids} |-> parseDetailPage(q[1], q[2])] @@ <<>>

parseDetailPageOf(page, uuid) == detailRecords[<<page, uuid>>]

\* the listings a run of v1 can hash: at most MAX_LISTINGS of them
HashableV1 ==
  {geocodeAllV1(ls, seed) :
     ls \in {q \in {parseListingsOf(d).listings : d \in AllDocs} : Len(q) <= MAX_LISTINGS},
     seed \in Seeds}

\* the records of the identifiers ids without those of down
LoadedOf(ids, down) ==
  [k \in 1..Len(SelectSeq(ids, LAMBDA u : u \notin down)) |->
     parseDetailPageOf(PageOf(SelectSeq(ids, LAMBDA u : u \notin down)[k]),
                       SelectSeq(ids, LAMBDA u : u \notin down)[k])]

\* the listings a run of v2 can hash
HashableV2 ==
  {geocodeAllV2(ls, seed) :
     ls \in {q \in {LoadedOf(parseIndexPageOf(d).uuids, down) :
                      d \in AllDocs, down \in SUBSET Flaky} : Len(q) <= MAX_LISTINGS},
     seed \in Seeds}

hashedV1 == [ls \in HashableV1 |-> simpleHash(stringifyV1(ls))] @@ <<>>
hashedV2 == [ls \in HashableV2 |-> simpleHash(stringifyV2(ls))] @@ <<>>

\* simpleHash(JSON.stringify(listings))
contentHashV1(records) == hashedV1[records]

contentHashV2(records) == hashedV2[records]

(***************************************************************************)
(* main.  listings.json is NoFile, Unreadable (JSON.parse throws) or the   *)
(* output of a run; of the output, lastUpdated and scrapeDurationMs (the   *)
(* clock) are left out.                                                    *)
(***************************************************************************)

APPFOLIO_URL == "https://greyrockcommercial.appfolio.com/listings"

NoFile == [exists |-> FALSE]
Unreadable == [exists |-> TRUE, readable |-> FALSE]

\* the message of the error of a fetch that failed for the last time
FETCH_FAILED == "HTTP 503: Service Unavailable"

Entry(level, msg) == [level |-> level, msg |-> msg]

\* the catch block of main: the log entry and the exit code
catchMain(message) ==
  [entry |-> Entry("error", "Scraper failed: " \o message),
   exitCode |-> IF includes(message, "STRUCTURE_CHANGED") THEN 2 ELSE 1]

\* previousCount and previousHash of listings.json
loadPrevious(f) ==
  IF f.exists /\ f.readable
  THEN [previousCount |-> Some(Len(f.listings)),
        previousHash |-> IF "contentHash" \in DOMAIN f.meta
                         THEN Some(f.meta.contentHash) ELSE None,
        log |-> <<>>]
  ELSE [previousCount |-> None, previousHash |-> None,
        log |-> IF f.exists
                THEN <<Entry("warn", "Could not read previous listings.json")>>
                ELSE <<>>]

\* a run that ends after it has cut listings.json short
RejectedTruncating(f, code, ids, records, logged) ==
  [exitCode |-> Some(code), file |-> Unreadable, uuids |-> ids,
   listings |-> records, log |-> logged]

\* a run that ends without writing
Rejected(f, code, ids, records, logged) ==
  [exitCode |-> Some(code), file |-> f, uuids |-> ids, listings |-> records,
   log |-> logged]

\* a run that ends in the catch block of main
Caught(f, caught, ids, logged) ==
  Rejected(f, caught.exitCode, ids, <<>>, Append(logged, caught.entry))

\* steps 6 to 8 of main (v1), 7 to 9 of main (v2): build and write
written(prev, records, noVacancies, validation, contentHash, version, ids, logged) ==
  [exitCode |-> Some(0),
   file |-> [exists |-> TRUE, readable |-> TRUE,
             meta |-> [source |-> APPFOLIO_URL,
                       listingCount |-> Len(records),
                       noVacancies |-> noVacancies,
                       previousCount |-> prev.previousCount,
                       hasChanges |-> Some(contentHash) # prev.previousHash,
                       contentHash |-> contentHash,
                       warnings |-> validation.warnings,
                       version |-> version],
             listings |-> records],
   uuids |-> ids, listings |-> records, log |-> logged \o prev.log]

\* steps 5 to 8 of main (v1), 6 to 9 of main (v2): load, compare, build, write
writeOutput(f, records, noVacancies, validation, contentHash, version, ids, logged) ==
  written(loadPrevious(f), records, noVacancies, validation, contentHash, version,
          ids, logged)

\* what main logs about a validation
validationLog(validation) ==
  IF ~validation.valid THEN <<Entry("error", "Validation failed")>>
  ELSE IF Len(validation.warnings) > 0 THEN <<Entry("warn", "Validation warnings")>>
  ELSE <<>>

\* what parseListings logs about the identifiers without a container
parseLog(warned) ==
  [k \in 1..Len(warned) |->
     Entry("warn", "Could not find card container for listing " \o warned[k])]

\* main (v1) from step 4 on: the validation decides
validatedV1(f, parsed, records, validation) ==
  IF ~validation.valid
  THEN Rejected(f, 3, parsed.seenUUIDs, records,
                parseLog(parsed.warned) \o validationLog(validation))
  ELSE writeOutput(f, records, parsed.noVacancies, validation,
                   contentHashV1(records), "1.0.0", parsed.seenUUIDs,
                   parseLog(parsed.warned) \o validationLog(validation))

\* main (v1) from step 3 on, for the geocoded listings
geocodedV1(f, parsed, records) ==
  validatedV1(f, parsed, records, validateListingsV1(records))

\* main (v1) from step 2 on, for what parseListings returned or threw
parsedV1Run(f, parsed, seed) ==
  IF parsed.threw # None THEN Caught(f, catchMain(parsed.threw[1]), <<>>, <<>>)
  ELSE geocodedV1(f, parsed, geocodeAllV1(parsed.listings, seed))

\* main (v1) on listings.json f, the fetched page (None: the fetch failed) and
\* the seed of Math.random
mainV1(f, fetched, seed) ==
  IF fetched = None THEN Caught(f, catchMain(FETCH_FAILED), <<>>, <<>>)
  ELSE parsedV1Run(f, parseListingsOf(fetched[1]), seed)

\* the output of main (v2) when the index page yields no identifier
emptyOutputV2 ==
  [exists |-> TRUE, readable |-> TRUE,
   meta |-> [source |-> APPFOLIO_URL, listingCount |-> 0, noVacancies |-> TRUE,
             hasChanges |-> FALSE, warnings |-> <<>>, version |-> "2.0.0"],
   listings |-> <<>>]

\* main (v2) after parseIndexPage; exitCode None: the run goes on to the
\* detail pages
indexedV2(f, parsed) ==
  IF parsed.threw # None THEN Caught(f, catchMain(parsed.threw[1]), <<>>, <<>>)
  ELSE IF parsed.noVacancies \/ Len(parsed.uuids) = 0
  THEN [exitCode |-> Some(0), file |-> emptyOutputV2, uuids |-> parsed.uuids,
        listings |-> <<>>, log |-> <<>>]
  ELSE [exitCode |-> None, file |-> f, uuids |-> parsed.uuids,
        listings |-> <<>>, log |-> <<>>]

\* steps 1 and 2 of main (v2)
indexV2(f, fetched) ==
  IF fetched = None THEN Caught(f, catchMain(FETCH_FAILED), <<>>, <<>>)
  ELSE indexedV2(f, parseIndexPageOf(fetched[1]))

\* the try and catch of one turn of the detail loop (lines 811-825)
detailStep(records, logged, uuid, fetched) ==
  IF fetched = None
  THEN [listings |-> records,
        log |-> Append(logged, Entry("warn", "Failed to fetch detail page for " \o uuid
                                          \o ": " \o FETCH_FAILED))]
  ELSE [listings |-> Append(records, parseDetailPageOf(fetched[1], uuid)),
        log |-> logged]

NO_LISTINGS == "No listings could be parsed from detail pages"

\* main (v2) from step 5 on: the validation decides
validatedV2(f, ids, records, validation, logged) ==
  IF ~validation.valid
  THEN Rejected(f, 3, ids, records, logged \o validationLog(validation))
  ELSE writeOutput(f, records, FALSE, validation, contentHashV2(records),
                   "2.0.0", ids, logged \o validationLog(validation))

\* main (v2) from step 4 on, for the geocoded listings
geocodedV2(f, ids, records, logged) ==
  validatedV2(f, ids, records, validateListingsV2(records), logged)

\* main (v2) after the detail loop (lines 832-890)
finishV2(f, ids, parsedListings, logged, seed) ==
  IF Len(parsedListings) = 0 THEN Caught(f, catchMain(NO_LISTINGS), ids, logged)
  ELSE geocodedV2(f, ids, geocodeAllV2(parsedListings, seed), logged)

(***************************************************************************)
(* The runs.  A run of v1 is one step; a run of v2 is the index step, then *)
(* one step per detail page with a sleep between two of them.  The         *)
(* variables hold listings.json, the run in progress (pc, i, uuids,        *)
(* listings, log) and, between two runs, what the last run ended with.     *)
(***************************************************************************)

vars == <<site, file, pc, variant, html, uuids, i, listings, exitCode, log,
          edited, prints>>

\* the pages the index URL can serve
Docs ==
  CASE site = "listings" -> SiteDocs
    [] site = "bulk" -> CeilingDocs
    [] site = "any" -> EnumDocs

\* a run can start: on the site of the enumerated pages, the first run only
CanStart == pc = "idle" /\ (site = "any" => variant = "none")

Responses == {None} \cup {Some(d) : d \in Docs}

DetailResponses(uuid) ==
  {Some(PageOf(uuid))} \cup (IF uuid \in Flaky THEN {None} ELSE {})

Idle ==
  /\ file \in {NoFile, Unreadable}
  /\ pc = "idle"
  /\ variant = "none"
  /\ html = None
  /\ uuids = <<>>
  /\ i = 0
  /\ listings = <<>>
  /\ exitCode = None
  /\ log = <<>>
  /\ edited = <<>>
  /\ prints = None

Init == site = "listings" /\ Idle

InitCeiling == site = "bulk" /\ Idle

InitAny == site = "any" /\ Idle

\* the run ends, or v2 goes on to its detail loop, with r
Ended(r) ==
  /\ file' = r.file
  /\ uuids' = r.uuids
  /\ listings' = r.listings
  /\ exitCode' = r.exitCode
  /\ log' = r.log

\* one run of main (v1)
V1Main ==
  /\ CanStart
  /\ \E fetched \in Responses, seed \in Seeds :
       /\ html' = fetched
       /\ Ended(mainV1(file, fetched, seed))
  /\ variant' = "v1"
  /\ UNCHANGED <<site, pc, i, edited, prints>>

\* main (v2) up to the detail loop
V2Index ==
  /\ CanStart
  /\ \E fetched \in Responses :
       /\ html' = fetched
       /\ Ended(indexV2(file, fetched))
  /\ pc' = IF exitCode' = None THEN "detail" ELSE "idle"
  /\ variant' = "v2"
  /\ i' = 0
  /\ UNCHANGED <<site, edited, prints>>

\* a loop that goes on to its next turn without the sleep
TurnedWithoutSleep(turn) ==
  IF i < Len(uuids) - 1
  THEN /\ pc' = "detail"
       /\ i' = i + 1
       /\ listings' = turn.listings
       /\ log' = turn.log
       /\ UNCHANGED <<file, uuids, exitCode>>
  ELSE /\ pc' = "idle"
       /\ i' = 0
       /\ \E seed \in Seeds : Ended(finishV2(file, uuids, turn.listings, turn.log, seed))

\* the loop goes on after a turn, or main goes on to its end after the last
Turned(turn) ==
  IF i < Len(uuids) - 1
  THEN /\ pc' = "sleep"
       /\ listings' = turn.listings
       /\ log' = turn.log
       /\ UNCHANGED <<file, uuids, exitCode, i>>
  ELSE /\ pc' = "idle"
       /\ i' = 0
       /\ \E seed \in Seeds : Ended(finishV2(file, uuids, turn.listings, turn.log, seed))

\* one turn of the detail loop up to its sleep; the last turn goes on to the
\* end of main
V2Detail ==
  /\ pc = "detail"
  /\ \E fetched \in DetailResponses(uuids[i + 1]) :
       Turned(detailStep(listings, log, uuids[i + 1], fetched))
  /\ UNCHANGED <<site, variant, html, edited, prints>>

\* await sleep(DETAIL_FETCH_DELAY_MS), then i++
V2Sleep ==
  /\ pc = "sleep"
  /\ pc' = "detail"
  /\ i' = i + 1
  /\ UNCHANGED <<site, file, variant, html, uuids, listings, exitCode, log, edited, prints>>

Next == V1Main \/ V2Index \/ V2Detail \/ V2Sleep

Spec == Init /\ [][Next]_vars

SpecCeiling == InitCeiling /\ [][Next]_vars

SpecAny == InitAny /\ [][Next]_vars

(***************************************************************************)
(* simpleHash on record sets one edit apart.  listings is a record set a   *)
(* run hashes, edited is listings after one edit, prints holds the         *)
(* fingerprints of the two once they are computed.                         *)
(***************************************************************************)

\* the record sets of a run of v1 and of a run of v2
HashBases ==
  {[variant |-> "v1",
    listings |-> geocodeAllV1(parseListingsOf(Document(<<BlockA>>)).listings, 0)],
   [variant |-> "v2",
    listings |-> geocodeAllV2(LoadedOf(<<UuidA, UuidB>>, {}), 0)]}

\* JSON.stringify(listings) of the version at hand
stringify(records) ==
  IF variant = "v1" THEN stringifyV1(records) ELSE stringifyV2(records)

\* the fields an edit changes, and the values it gives them
EditedFields == {"title", "available"}
EditedValues == {"Unit Aa", "Unit BB", "Now"}
EditedChars == {"x", "Q"}

\* the last position of a field at which an edit replaces a character
MaxPos == 3

\* records with the field of its k-th record set to value
WithField(records, k, field, value) ==
  [records EXCEPT ![k] = [@ EXCEPT ![field] = value]]

\* str with the character at pos replaced by c
WithChar(str, pos, c) ==
  SubSeq(str, 1, pos - 1) \o c \o SubSeq(str, pos + 1, Len(str))

InitHash ==
  /\ site = "hash"
  /\ file = NoFile
  /\ pc = "edit"
  /\ \E base \in HashBases : variant = base.variant /\ listings = base.listings
  /\ html = None
  /\ uuids = <<>>
  /\ i = 0
  /\ exitCode = None
  /\ log = <<>>
  /\ edited = listings
  /\ prints = None

\* the title of the first record changes on both sides
ChangeListings ==
  /\ pc = "edit"
  /\ \E value \in EditedValues \ {"Now"} :
       listings' = WithField(listings, 1, "title", value)
  /\ edited' = listings'
  /\ prints' = None
  /\ UNCHANGED <<site, file, pc, variant, html, uuids, i, exitCode, log>>

\* edited becomes listings with one field of one record changed
ChangeField ==
  /\ pc = "edit"
  /\ \E k \in 1..Len(listings), field \in EditedFields, value \in EditedValues :
       edited' = WithField(listings, k, field, value)
  /\ prints' = None
  /\ UNCHANGED <<site, file, pc, variant, html, uuids, i, listings, exitCode, log>>

\* edited becomes listings with one character of one field replaced
ReplaceChar ==
  /\ pc = "edit"
  /\ \E k \in 1..Len(listings), field \in EditedFields, pos \in 1..MaxPos,
        c \in EditedChars :
       /\ pos <= Len(listings[k][field])
       /\ edited' = WithField(listings, k, field, WithChar(listings[k][field], pos, c))
  /\ prints' = None
  /\ UNCHANGED <<site, file, pc, variant, html, uuids, i, listings, exitCode, log>>

\* simpleHash(JSON.stringify(...)) of the two record sets
Fingerprint ==
  /\ pc = "edit"
  /\ prints = None
  /\ prints' = Some(<<simpleHash(stringify(listings)), simpleHash(stringify(edited))>>)
  /\ UNCHANGED <<site, file, pc, variant, html, uuids, i, listings, exitCode, log,
                 edited>>

NextHash == ChangeListings \/ ChangeField \/ ReplaceChar \/ Fingerprint

SpecHash == InitHash /\ [][NextHash]_vars

(***************************************************************************)
(* extractListingData and parseDetailPage on one card, one page at a time. *)
(* html holds the card or the page, listings the record made of it, before *)
(* and after the geocoding step.                                           *)
(***************************************************************************)

RECURSIVE Repeat(_, _)
Repeat(str, n) == IF n = 0 THEN "" ELSE str \o Repeat(str, n - 1)

\* 315 characters in sentences, 35 characters
LongParagraph == Repeat("Bright corner suite. ", 15)
ShortParagraph == "Bright corner suite with a parking."

\* what a card or a page says about rent, area, rate, address and availability
SampleTexts ==
  {"Rent $2,500 1,200 SF Available Now",
   "Rent $2,500 1,200 SF $18.50/yr Available 3/1/2026",
   "Rent $0 1,200 SF available March 1, 2026",
   "Rent $2,500 Available June 2026",
   "900 SF Available 3/1/2026 then AVAILABLE NOW",
   "Available March 1, 2026 and available now",
   "Call us",
   "12 Elm St, constructor, NC 28202 Rent $2,500.50 800 SF",
   "12 Elm St, Mint Hill , NC 28227 Rent $900"}

SampleHeadings == {<<>>, <<"">>, <<"Hi">>, <<"Corner Office Suite">>}
SampleLinkTexts == {None, Some(""), Some("View Details"), Some("Corner Office Suite")}
SampleParas == {<<>>, <<ShortParagraph>>, <<"Short", LongParagraph>>}
SampleTitles == {None, Some(""), Some("Greyrock Commercial")}
SampleDescEls == {None, Some(""), Some(ShortParagraph), Some(LongParagraph)}

SampleCard(text, headings, linkText, paras) ==
  [Element("li", "listing-item", 4, 2, text)
   EXCEPT !.headings = headings, !.detailLinkText = linkText, !.paras = paras]

SamplePage(text, headings, docTitle, descEl, paras) ==
  [Page(text, headings, descEl, <<>>) EXCEPT !.docTitle = docTitle, !.paras = paras]

SampleCards ==
  {SampleCard(t, <<"Corner Office Suite">>, None, <<>>) : t \in SampleTexts}
  \cup {SampleCard("Call us", h, lt, <<>>) : h \in SampleHeadings, lt \in SampleLinkTexts}
  \cup {SampleCard("Call us", <<>>, None, p) : p \in SampleParas}
  \cup {SampleCard(t, <<>>, None, <<>>) :
          t \in {LongParagraph, "12 Elm St, Mint Hill , NC 28227 Rent $900"}}

SamplePages ==
  {SamplePage(t, <<"Corner Office Suite">>, None, None, <<>>) : t \in SampleTexts}
  \cup {SamplePage("Call us", h, t, None, <<>>) : h \in SampleHeadings, t \in SampleTitles}
  \cup {SamplePage("Call us", <<>>, None, d, p) : d \in SampleDescEls, p \in SampleParas}

InitExtract ==
  /\ site = "samples"
  /\ file = NoFile
  /\ pc = "input"
  /\ \/ variant = "v1" /\ html \in {Some(c) : c \in SampleCards}
     \/ variant = "v2" /\ html \in {Some(q) : q \in SamplePages}
  /\ uuids = <<UuidA>>
  /\ i = 0
  /\ listings = <<>>
  /\ exitCode = None
  /\ log = <<>>
  /\ edited = <<>>
  /\ prints = None

\* const listing = extractListingData(card, uuid); listings.push(listing)
ExtractCard ==
  /\ pc = "input"
  /\ variant = "v1"
  /\ listings' = <<extractListingData(html[1], uuids[1])>>
  /\ pc' = "record"
  /\ UNCHANGED <<site, file, variant, html, uuids, i, exitCode, log, edited, prints>>

\* const listing = parseDetailPage(detailHtml, uuid); listings.push(listing)
ParsePage ==
  /\ pc = "input"
  /\ variant = "v2"
  /\ listings' = <<parseDetailPage(html[1], uuids[1])>>
  /\ pc' = "record"
  /\ UNCHANGED <<site, file, variant, html, uuids, i, exitCode, log, edited, prints>>

\* the geocoding step of main on the record
Geocode ==
  /\ pc = "record"
  /\ \E seed \in Seeds :
       listings' = IF variant = "v1" THEN geocodeAllV1(listings, seed)
                   ELSE geocodeAllV2(listings, seed)
  /\ pc' = "placed"
  /\ UNCHANGED <<site, file, variant, html, uuids, i, exitCode, log, edited, prints>>

NextExtract == ExtractCard \/ ParsePage \/ Geocode

SpecExtract == InitExtract /\ [][NextExtract]_vars

(***************************************************************************)
(* The body of detailLinks.forEach on one link at a time.  html holds the  *)
(* link, listings and log what its turn of the loop leaves.                *)
(***************************************************************************)

\* the elements above a link: without any mark of a card, with class
\* listing-item, with a class that contains 'listing', a list item, and an
\* element with 3 children, 2 links and 60 characters of text
PlainDiv == Element("div", "", 1, 1, "Details")
ItemDiv == Element("div", "listing-item", 2, 1, "Item Rent $900")
ListingDiv == Element("div", "js-listing-card", 2, 1, "Card Rent $800")
ListItem == Element("li", "", 2, 1, "Entry Rent $700")
WideDiv == Element("section", "", 3, 2, "Wide " \o Repeat("Rent $600 ", 5) \o "Details")

Ancestors == {PlainDiv, ItemDiv, ListingDiv, ListItem, WideDiv}

\* the longest chain of ancestors of the enumeration
MaxUp == 2

RECURSIVE Chains(_)
Chains(n) ==
  IF n = 0 THEN {<<>>}
  ELSE Chains(n - 1)
       \cup {Append(c, e) : c \in {q \in Chains(n - 1) : Len(q) = n - 1}, e \in Ancestors}

\* the only marked element is the (n + 1)-th ancestor
DeepChain(n) == [k \in 1..(n + 1) |-> IF k <= n THEN PlainDiv ELSE WideDiv]

\* links without a class and links with a class of their own
SampleLinks ==
  {[Anchor(DETAIL_PATH \o UuidA, "Details", up) EXCEPT !.class = c] :
     up \in Chains(MaxUp) \cup {DeepChain(9), DeepChain(10)},
     c \in {"", "listing-link"}}

InitLink ==
  /\ site = "links"
  /\ file = NoFile
  /\ pc = "link"
  /\ variant = "v1"
  /\ html \in {Some(a) : a \in SampleLinks}
  /\ uuids = <<>>
  /\ i = 0
  /\ listings = <<>>
  /\ exitCode = None
  /\ log = <<>>
  /\ edited = <<>>
  /\ prints = None

\* the accumulator after the turn of the loop for the link
linkTurn(acc) ==
  /\ uuids' = acc.seenUUIDs
  /\ listings' = acc.listings
  /\ log' = parseLog(acc.warned)

\* one turn of detailLinks.forEach (lines 105-130)
ForEachTurn ==
  /\ pc = "link"
  /\ linkTurn(linkStep([seenUUIDs |-> <<>>, listings |-> <<>>, warned |-> <<>>],
                       processLink(html[1])))
  /\ pc' = "turned"
  /\ UNCHANGED <<site, file, variant, html, i, exitCode, edited, prints>>

NextLink == ForEachTurn

SpecLink == InitLink /\ [][NextLink]_vars

(***************************************************************************)
(* fetchWithRetry, one call.  i is the attempt of the loop, log what the   *)
(* call logged, edited the delays it slept, html the body it returned and  *)
(* prints the message of the error it threw.                               *)
(***************************************************************************)

MAX_RETRIES == 3
RETRY_DELAY_MS == 5000

\* the messages of the errors of an attempt: a response that is not ok, a
\* request that failed, a request or body that ran into the 30 s timeout
FetchErrors ==
  {FETCH_FAILED, "HTTP 404: Not Found", "fetch failed",
   "The operation was aborted due to timeout"}

\* the bodies of the responses that are ok
FetchBodies == {"", "<html><body>No vacancies</body></html>"}

\* log('info', `Fetching ... (attempt ${attempt}/${retries})`)
attemptEntry(attempt, retries) ==
  Entry("info", (IF variant = "v1" THEN "Fetching AppFolio listings (attempt "
                 ELSE "Fetching (attempt ")
                \o DecStr(attempt) \o "/" \o DecStr(retries) \o ")")

\* log('info', `Fetched ${html.length} bytes ...`)
fetchedEntry(body) ==
  Entry("info", "Fetched " \o DecStr(Len(body))
                \o (IF variant = "v1" THEN " bytes of HTML" ELSE " bytes"))

\* log('warn', `Fetch attempt ${attempt} failed: ${err.message}`)
failedEntry(attempt, err) ==
  Entry("warn", "Fetch attempt " \o DecStr(attempt) \o " failed: " \o err)

\* a delay that does not grow with the attempt
flatDelay(attempt) == RETRY_DELAY_MS

\* RETRY_DELAY_MS * attempt
retryDelay(attempt) == RETRY_DELAY_MS * attempt

InitFetch ==
  /\ site = "fetch"
  /\ file = NoFile
  /\ pc = "attempt"
  /\ variant \in {"v1", "v2"}
  /\ html = None
  /\ uuids = <<>>
  /\ i = 1
  /\ listings = <<>>
  /\ exitCode = None
  /\ log = <<>>
  /\ edited = <<>>
  /\ prints = None

\* an attempt whose response is ok and whose body arrives: return html
AttemptReturns ==
  /\ pc = "attempt"
  /\ i <= MAX_RETRIES
  /\ \E body \in FetchBodies :
       /\ html' = Some(body)
       /\ log' = log \o <<attemptEntry(i, MAX_RETRIES), fetchedEntry(body)>>
  /\ pc' = "returned"
  /\ UNCHANGED <<site, file, variant, uuids, i, listings, exitCode, edited, prints>>

\* an attempt that throws: the catch block logs, then sleeps or throws on
AttemptFails ==
  /\ pc = "attempt"
  /\ i <= MAX_RETRIES
  /\ \E err \in FetchErrors :
       /\ log' = log \o <<attemptEntry(i, MAX_RETRIES), failedEntry(i, err)>>
       /\ IF i < MAX_RETRIES
          THEN pc' = "sleep" /\ prints' = prints
          ELSE pc' = "thrown" /\ prints' = Some(err)
  /\ UNCHANGED <<site, file, variant, html, uuids, i, listings, exitCode, edited>>

\* await sleep(RETRY_DELAY_MS * attempt), then attempt++
Slept ==
  /\ pc = "sleep"
  /\ edited' = Append(edited, retryDelay(i))
  /\ i' = i + 1
  /\ pc' = "attempt"
  /\ UNCHANGED <<site, file, variant, html, uuids, listings, exitCode, log, prints>>

NextFetch == AttemptReturns \/ AttemptFails \/ Slept

\* an attempt ends within its 30 s timeout and a sleep when its timer fires
SpecFetch == InitFetch /\ [][NextFetch]_vars /\ WF_vars(NextFetch)

(***************************************************************************)
(* Properties                                                              *)
(***************************************************************************)

\* a run has ended
RunEnded == pc = "idle" /\ variant # "none"

\* C1: a run that ends rejected (exit code 1, 2 or 3) leaves listings.json
\* exactly as it was, and so does every step of a run still in progress:
\* only the step that ends a run with exit code 0 changes the file.
C1_RejectedRunKeepsSnapshot ==
  [][file' # file => (pc' = "idle" /\ exitCode' = Some(0))]_vars

\* a run of v2 whose only detail page failed to load has ended with exit code
\* 1 while listings.json holds the two listings of an earlier run
C1_Witness ==
  /\ RunEnded
  /\ variant = "v2"
  /\ exitCode = Some(1)
  /\ Len(uuids) > 0
  /\ file.exists /\ file.readable
  /\ Len(file.listings) = 2

\* no anchor of doc yields a listing identifier
NoIdentifier(doc) ==
  \A k \in 1..Len(doc.anchors) : uuidOfLink(doc.anchors[k]) = None

\* C2: of a fetched index page, exit code 2 (StructureChanged) iff no anchor
\* has the shape of a detail link and no phrase of an empty inventory is in
\* the text; and a page without an anchor that yields an identifier and
\* without such a phrase never ends a run with exit code 0.
C2_ThreeOutcomes ==
  (RunEnded /\ html # None) =>
    /\ (exitCode = Some(2)) <=>
         (Len(detailLinksOf(html[1])) = 0 /\ ~saysNoVacancies(html[1]))
    /\ (NoIdentifier(html[1]) /\ ~saysNoVacancies(html[1])) => exitCode # Some(0)

\* the place of the first anchor of the fetched page that yields identifier u
FirstSeen(u) ==
  CHOOSE k \in 1..Len(html[1].anchors) :
    /\ uuidOfLink(html[1].anchors[k]) = Some(u)
    /\ \A j \in 1..(k - 1) : uuidOfLink(html[1].anchors[j]) # Some(u)

\* C3: the records of a run have pairwise distinct ids, in the order in which
\* the fetched page first shows each identifier; so have the identifiers v2
\* takes from the index page.
C3_DistinctFirstSeenOrder ==
  html # None =>
    /\ \A a, b \in 1..Len(listings) :
         a < b => /\ listings[a].id # listings[b].id
                  /\ FirstSeen(listings[a].id) < FirstSeen(listings[b].id)
    /\ \A a, b \in 1..Len(uuids) :
         a < b => /\ uuids[a] # uuids[b]
                  /\ FirstSeen(uuids[a]) < FirstSeen(uuids[b])

\* a page whose first and third anchor point to the same listing has given
\* two records, the repeated listing first
C3_Witness ==
  /\ RunEnded
  /\ html = Some(Document(<<BlockA, BlockB, BlockA>>))
  /\ Len(listings) = 2
  /\ listings[1].id = UuidA
  /\ listings[2].id = UuidB

\* C4: a run for which the index page yielded identifiers and that extracted
\* no listing does not end with exit code 0.
C4_NoListingIsFatal ==
  (RunEnded /\ Len(uuids) > 0 /\ Len(listings) = 0) => exitCode # Some(0)

\* validateListings of the version of the run, on the records of the run
validationOfRun ==
  IF variant = "v2" THEN validateListingsV2(listings) ELSE validateListingsV1(listings)

Count(b) == IF b THEN 1 ELSE 0

MissingNum(v) == v = None \/ v[1].nan

\* how many of the six conditions hold of a record
conditionsOf(l) ==
  Count(MissingStr(l.address)) + Count(MissingNum(l.rent)) + Count(MissingNum(l.sqft))
  + Count(MissingStr(l.imageUrl))
  + Count(~MissingNum(l.rent) /\ GreaterThan(l.rent[1], SUSPICIOUS))
  + Count(~MissingNum(l.sqft) /\ GreaterThan(l.sqft[1], SUSPICIOUS))

\* how many of the warnings are about the record
warningsAbout(l, warnings) ==
  Cardinality({k \in 1..Len(warnings) :
                 SubSeq(warnings[k], 1, Len(l.id) + 10) = "Listing " \o l.id \o ": "})

\* C6: the warnings a run stores hold, for each record, one warning for each
\* of the conditions that hold of it (missing address, price, area, primary
\* image; price or area above SUSPICIOUS), and no other.
C6_OneWarningPerCondition ==
  (RunEnded /\ exitCode = Some(0)) =>
    \A k \in 1..Len(listings) :
      warningsAbout(listings[k], file.meta.warnings) = conditionsOf(listings[k])

\* the fingerprint listings.json stores, if any
storedHash(f) ==
  IF f.exists /\ f.readable /\ "contentHash" \in DOMAIN f.meta
  THEN Some(f.meta.contentHash) ELSE None

\* C7: every snapshot a run writes stores previousCount, hasChanges and its
\* fingerprint, and its hasChanges is true iff the snapshot it replaces
\* stored no fingerprint or another one.
C7_SnapshotStoresChange ==
  [][file' # file =>
       /\ {"previousCount", "hasChanges", "contentHash"} \subseteq DOMAIN file'.meta
       /\ file'.meta.hasChanges = (Some(file'.meta.contentHash) # storedHash(file))]_vars

\* records without what the geocoding step adds
withoutCoords(records) ==
  [k \in 1..Len(records) |-> [records[k] EXCEPT !.lat = None, !.lng = None]]

\* C8: a run that writes, over a snapshot with a fingerprint, records that
\* differ from the snapshot's in their coordinates at most stores
\* hasChanges = false.
C8_JitterLeavesFingerprint ==
  [][(/\ file' # file
      /\ storedHash(file) # None
      /\ storedHash(file') # None
      /\ file'.meta.version = file.meta.version
      /\ withoutCoords(file'.listings) = withoutCoords(file.listings))
     => file'.meta.hasChanges = FALSE]_vars

\* the fields in which record sets a and b of equal length differ
fieldsApart(a, b) ==
  {q \in (1..Len(a)) \X DOMAIN a[1] : a[q[1]][q[2]] # b[q[1]][q[2]]}

\* the positions at which strings s and t of equal length differ
charsApart(s, t) == {p \in 1..Len(s) : SubSeq(s, p, p) # SubSeq(t, p, p)}

C10_StatusFollowsAvailable ==
  \A k \in 1..Len(listings) :
    /\ listings[k].status \in {"available", "coming-soon"}
    /\ listings[k].status = "available" <=> listings[k].available = "Now"

\* the rate the text of the card or page states
statedRate ==
  IF variant = "v1" THEN statedRateV1(html[1].text) ELSE statedRateV2(html[1].text)

\* C11: the rentPerSF of a record is the rate its text states; without one,
\* rent / sqft * 12 rounded to 2 decimals when rent and sqft are both present
\* (a rent of 0 included); absent otherwise.
C11_RentPerSFRule ==
  (site = "samples" /\ pc = "record") =>
    listings[1].rentPerSF =
      (IF statedRate # None THEN statedRate
       ELSE IF listings[1].rent # None /\ listings[1].sqft # None
       THEN Some(annualPerSF(listings[1].rent[1], listings[1].sqft[1]))
       ELSE None)

\* a record is made of the card or page in html
RecordMade == site = "samples" /\ pc \in {"record", "placed"}

\* the card or page names the listing nowhere: every heading and the link
\* text or page title are empty or absent, and there is no address
Nameless ==
  /\ \A k \in 1..Len(html[1].headings) : trim(html[1].headings[k]) = ""
  /\ IF variant = "v1"
     THEN html[1].detailLinkText \in {None, Some("")} /\ listings[1].address = None
     ELSE html[1].docTitle \in {None, Some("")}

\* C12: every record has a non-empty title, and the record of a card or page
\* that names the listing nowhere has the title 'Listing ' followed by the
\* first 8 characters of its id.
C12_TitleNeverEmpty ==
  /\ \A k \in 1..Len(listings) : listings[k].title # ""
  /\ (RecordMade /\ Nameless) =>
       listings[1].title = "Listing " \o SubSeq(listings[1].id, 1, 8)

\* a record is made of a card or page whose only heading is empty and that
\* names the listing nowhere else
C12_Witness ==
  /\ RecordMade
  /\ html[1].headings = <<"">>
  /\ Nameless
  /\ listings[1].title = "Listing a1b2c3d4"

\* C13: in a run of v2 the request for a detail page starts only after the
\* index step (the first identifier) or after a sleep, which moves on to the
\* next identifier and changes nothing else; a request that is not the last
\* is followed by the sleep whether it succeeded or failed, and what it adds
\* is the record of identifier i + 1.
C13_OneAtATimeWithDelay ==
  [][/\ pc' = "detail" =>
          \/ pc = "sleep" /\ i' = i + 1 /\ UNCHANGED <<uuids, listings, log, file>>
          \/ pc = "idle" /\ i' = 0 /\ listings' = <<>>
     /\ (pc = "detail" /\ i < Len(uuids) - 1) => pc' = "sleep"
     /\ (pc = "detail" /\ i >= Len(uuids) - 1) => pc' = "idle"
     /\ pc' = "sleep" =>
          /\ pc = "detail"
          /\ i' = i
          /\ \/ listings' = listings /\ Len(log') = Len(log) + 1
             \/ /\ Len(listings') = Len(listings) + 1
                /\ listings'[Len(listings')].id = uuids[i + 1]
                /\ SubSeq(listings', 1, Len(listings)) = listings]_vars

\* the first of several detail pages failed to load, and the run sleeps
\* before it asks for the second
C13_Witness ==
  /\ pc = "sleep"
  /\ i = 0
  /\ Len(uuids) > 1
  /\ listings = <<>>
  /\ Len(log) = 1

\* the message of the last log entry of the run, "" without one
lastMessage == IF log = <<>> THEN "" ELSE log[Len(log)].msg

\* C14: a run ends with exit code 0, 1, 2 or 3: 1 iff it failed with the
\* error of a fetch, passed through; 2 iff it failed with STRUCTURE_CHANGED;
\* 3 iff its validation failed.
C14_ExitCodeNamesReason ==
  RunEnded =>
    /\ exitCode \in {Some(0), Some(1), Some(2), Some(3)}
    /\ (exitCode = Some(1)) <=> (lastMessage = "Scraper failed: " \o FETCH_FAILED)
    /\ (exitCode = Some(2)) <=> (lastMessage = "Scraper failed: " \o STRUCTURE_CHANGED)
    /\ (exitCode = Some(3)) <=> (lastMessage = "Validation failed")

\* the nearest of the ancestors ups that satisfies the test of strategy n
nearestAbove(ups, n) ==
  FirstAt(ups, {k \in 1..Len(ups) :
                  CASE n = 1 -> hasClass(ups[k], "listing-item")
                    [] n = 2 -> includes(ups[k].class, "listing")
                    [] n = 3 -> ups[k].tag = "li"})

\* the container C15 names for a link: the first strategy that succeeds, each
\* among the ancestors of the link
containerAbove(link) ==
  IF nearestAbove(link.up, 1) # None THEN nearestAbove(link.up, 1)
  ELSE IF nearestAbove(link.up, 2) # None THEN nearestAbove(link.up, 2)
  ELSE IF nearestAbove(link.up, 3) # None THEN nearestAbove(link.up, 3)
  ELSE findCardContainer(link)

\* C15: the record of a link is extracted from the container of the first
\* strategy that succeeds among its ancestors (the link itself is no
\* container); without a container there is no record and a warning is
\* logged.
C15_ContainerAmongAncestors ==
  (site = "links" /\ pc = "turned") =>
    IF containerAbove(html[1]) = None
    THEN listings = <<>> /\ Len(log) = 1
    ELSE listings = <<extractListingData(containerAbove(html[1])[1], UuidA)>>
         /\ log = <<>>

\* the date after an 'available' label in the text: MM/DD/YYYY, or
\* 'Month DD, YYYY' or 'Month YYYY'
datedAvailability(text) ==
  OrElse(GroupOf(text, match(ReAvailableSlashDate, text, TRUE), 1),
         GroupOf(text, match(ReAvailableDateV1, text, TRUE), 1))

\* C16: in both variants the availability of a record is 'Now' when its text
\* holds 'available now' in any letter case, whatever dates it also holds;
\* otherwise the date after an 'available' label; otherwise 'Contact for
\* availability'.
C16_AvailabilityPrecedence ==
  (site = "samples" /\ pc = "record") =>
    listings[1].available =
      (IF includes(toLowerCase(html[1].text), "available now") THEN "Now"
       ELSE Default(datedAvailability(html[1].text), "Contact for availability"))

\* the place of identifier id in the sequence ids
placeOf(ids, id) == CHOOSE k \in 1..Len(ids) : ids[k] = id

\* records are in the order of the identifiers ids, one per identifier at most
inOrderOf(records, ids) ==
  \A j, k \in 1..Len(records) :
    j < k => placeOf(ids, records[j].id) < placeOf(ids, records[k].id)

\* what the parsers returned for the records of the run: for v1 the records
\* of the page, for v2 the record of the detail page of each identifier
asExtracted(records) ==
  IF variant = "v1" THEN parseListingsOf(html[1]).listings
  ELSE [k \in 1..Len(records) |->
          parseDetailPageOf(PageOf(records[k].id), records[k].id)]

\* the warnings of the detail loop about pages that did not load
fetchWarnings ==
  {k \in 1..Len(log) : Len(log[k].msg) > 20
                       /\ SubSeq(log[k].msg, 1, 20) = "Failed to fetch deta"}

\* the run got past the extraction: it ended with exit code 0 or 3 and has
\* records
PastExtraction ==
  /\ RunEnded
  /\ exitCode \in {Some(0), Some(3)}
  /\ listings # <<>>

\* C17: from its extraction to the end of the run a record changes in lat and
\* lng only, which the geocoding step sets; validation, fingerprint, the load
\* of the previous snapshot and the write leave the fields, the order and the
\* membership of the records as they are.
C17_OnlyCoordinatesChange ==
  /\ pc \in {"detail", "sleep"} =>
       /\ listings = asExtracted(listings)
       /\ inOrderOf(listings, uuids)
  /\ PastExtraction =>
       /\ withoutCoords(listings) = asExtracted(listings)
       /\ \A k \in 1..Len(listings) : listings[k].lat # None /\ listings[k].lng # None
       /\ variant = "v2" =>
            /\ inOrderOf(listings, uuids)
            /\ Len(listings) + Cardinality(fetchWarnings) = Len(uuids)
       /\ exitCode = Some(0) => file.listings = listings

\* a run of v2 that lost the first of its two detail pages wrote the
\* geocoded record of the second
C17_Witness ==
  /\ PastExtraction
  /\ variant = "v2"
  /\ exitCode = Some(0)
  /\ Len(uuids) = 2
  /\ Len(listings) = 1
  /\ listings[1].id = uuids[2]
  /\ file.listings = listings
  /\ withoutCoords(listings) = asExtracted(listings)
  /\ listings[1].lat # None

\* the cities the table of the variant at hand knows
knownCities ==
  IF variant = "v1" THEN CHARLOTTE_METRO_COORDS ELSE CHARLOTTE_METRO_COORDS @@ NC_METRO_EXTRA

\* what geocodeCity of the variant at hand returns for the city of a record
geocodeCityOf(record) ==
  IF variant = "v1" THEN geocodeCityV1(record.city) ELSE geocodeCityV2(record.city)

\* the pair C18 names for a city: that of the lowercased, trimmed name when
\* the table knows it, the default pair otherwise
pairOf(city) ==
  IF city # None /\ keyOf(city[1]) \in DOMAIN knownCities
  THEN knownCities[keyOf(city[1])]
  ELSE DEFAULT_COORDS

\* C18: for every city, geocodeCity returns the pair of the known city or
\* the default pair, and the geocoded record has numeric lat and lng.
C18_EveryCityHasCoordinates ==
  (site = "samples" /\ pc = "placed") =>
    /\ geocodeCityOf(listings[1]) = pairOf(listings[1].city)
    /\ ~listings[1].lat[1].nan
    /\ ~listings[1].lng[1].nan

\* the texts the description of the card or page in html can come from: its
\* paragraphs and, for a page, its description container
descriptionSources ==
  {trim(html[1].paras[k]) : k \in 1..Len(html[1].paras)}
  \cup (IF variant = "v2" /\ html[1].descEl # None THEN {trim(html[1].descEl[1])} ELSE {})

\* C19: the description of a record is at most 300 characters long, and a
\* description that comes from a text of more than 300 characters is its
\* first 297 characters followed by '...'.
C19_DescriptionCapped ==
  (site = "samples" /\ pc = "record") =>
    /\ Len(listings[1].description) <= 300
    /\ \A src \in descriptionSources :
         (/\ Len(src) > 300
          /\ Len(listings[1].description) >= 297
          /\ SubSeq(listings[1].description, 1, 297) = SubSeq(src, 1, 297))
         => listings[1].description = SubSeq(src, 1, 297) \o "..."

\* the entries of the log of a call about the start of an attempt, and about
\* a failed one
attemptsLogged == {k \in 1..Len(log) : log[k] = attemptEntry(i, MAX_RETRIES)
                                        \/ \E a \in 1..(i - 1) : log[k] = attemptEntry(a, MAX_RETRIES)}
failuresLogged == {k \in 1..Len(log) : log[k].level = "warn"}

FetchEnded == site = "fetch" /\ pc \in {"returned", "thrown"}

\* what holds of a call of fetchWithRetry at every moment
FetchState ==
  site = "fetch" =>
    /\ i \in 1..MAX_RETRIES
    /\ Cardinality(attemptsLogged) = (IF pc = "attempt" THEN i - 1 ELSE i)
    /\ Cardinality(attemptsLogged) <= MAX_RETRIES
    /\ Cardinality(failuresLogged) = (IF pc \in {"attempt", "returned"} THEN i - 1 ELSE i)
    /\ edited = [k \in 1..(i - 1) |-> RETRY_DELAY_MS * k]
    /\ pc \in {"attempt", "sleep"} => html = None /\ prints = None
    /\ pc = "returned" => html # None /\ prints = None
    /\ pc = "thrown" =>
         /\ html = None
         /\ i = MAX_RETRIES
         /\ prints # None
         /\ log[Len(log)] = failedEntry(MAX_RETRIES, prints[1])

\* C20: a call of fetchWithRetry ends; it makes at most MAX_RETRIES attempts,
\* returns the body of the first attempt that succeeds and attempts nothing
\* after it, sleeps RETRY_DELAY_MS * k between the failed attempt k and attempt
\* k + 1, throws the error of the last attempt without a sleep after it, and
\* returns a body whenever it does not throw.
C20_RetriesThenThrows ==
  /\ []FetchState
  /\ [][~FetchEnded]_vars
  /\ (site = "fetch") ~> FetchEnded

\* two attempts failed, the call slept 5000 and 10000 ms, and the third
\* attempt failed too: the call threw its error
C20_Witness ==
  /\ site = "fetch"
  /\ pc = "thrown"
  /\ i = 3
  /\ edited = <<5000, 10000>>
  /\ prints = Some("fetch failed")
  /\ Cardinality(failuresLogged) = 3

=============================================================================
